---------------------------- MODULE Spec2Model ----------------------------
(***************************************************************************)
(* The streaming perf.data tokenizer (PerfDataTokenizer) of the trace      *)
(* processor: a resumable state machine fed with byte chunks, over the     *)
(* offset-addressed buffer TraceBlobViewReader, pushing timestamped        *)
(* records into the sorter.                                                *)
(*                                                                         *)
(* A perf.data file is kept as its layout (header fields, sections,        *)
(* record sizes, all in bytes) plus the decoded content of every region;   *)
(* the tokenizer sees a region only once the buffer holds all its bytes.   *)
(***************************************************************************)
EXTENDS Integers, Sequences, FiniteSets, TLC

(***************************************************************************)
(* Sizes of the wire format.                                               *)
(***************************************************************************)
\* sizeof(PerfFile::Header): magic 8, size 8, attr_size 8, three sections
\* of 16, flags 8, flags1 24.
HeaderSize == 104
\* sizeof(record.header): type u32, misc u16, size u16.
RecordHeaderSize == 8
\* sizeof(PerfFile::Section): offset u64, size u64.
SectionSize == 16
\* sizeof(uint64_t), the size of one sample id and of one payload field.
WordSize == 8
\* Bits in one flags word of the header (sizeof(flags) * 8).
FlagBits == 64

kPerfMagic == "PERFILE2"

(***************************************************************************)
(* Bounds of the model.                                                    *)
(***************************************************************************)
\* Largest chunk, in bytes, handed to one Parse call (besides "all the rest").
MaxChunk == 2
\* Stride of one attrs entry in the files of the family (header.attr_size).
FamAttrSize == 32
\* Largest value of int64_t in the scaled timestamp domain: a uint64 time
\* above it becomes negative in static_cast<int64_t>.
Int64Max == 3
\* Size in bytes of every feature section of the family.
FamFeatSize == 8

Max(a, b) == IF a >= b THEN a ELSE b

\* The bytes the first k records occupy: header.size each, and no less than
\* the record header itself.
RECURSIVE SumSizes(_, _)
SumSizes(recs, k) ==
  IF k = 0 THEN 0
  ELSE SumSizes(recs, k - 1) + Max(recs[k].size, RecordHeaderSize)

Range(s) == {s[i] : i \in DOMAIN s}

End(section) == section.offset + section.size

Sec(o, s) == [offset |-> o, size |-> s]

(***************************************************************************)
(* static_cast<int64_t>(uint64_t) on the scaled domain 0 .. 2*Int64Max+1.  *)
(***************************************************************************)
ToInt64(u) == IF u > Int64Max THEN u - 2 * (Int64Max + 1) ELSE u


VARIABLES
  file,              \* the perf.data file being imported (never changes)
  env,               \* the collaborators' behaviour: clock tracker, sorter
  delivered,         \* bytes of the file handed to Parse so far
  parsing_state_,    \* PerfDataTokenizer::parsing_state_
  buffer_,           \* PerfDataTokenizer::buffer_: [start, end) held
  header_,           \* PerfDataTokenizer::header_
  feature_ids_,      \* PerfDataTokenizer::feature_ids_
  feature_headers_section_,
  feature_sections_, \* sequence of [id, section], popped from the back
  perf_session_,     \* the session built by ParseAttrs (id 0: none yet)
  latest_timestamp_, \* PerfDataTokenizer::latest_timestamp_
  sorter,            \* context_->sorter: records pushed, max_timestamp
  stats,             \* context_->storage stats touched by the tokenizer
  clock,             \* context_->clock_tracker: SetTraceTimeClock calls
  features,          \* feature ids handed to ParseFeature, in order
  status,            \* what the last Parse call returned
  aborted,           \* a PERFETTO_CHECK failed: the process is gone
  probe,             \* what the buffer was asked: slices and pops below start
  log,               \* the state functions the last Parse call ran
  parser,            \* the RecordParser and the collaborators it reaches
  sniffer            \* the last GuessTraceType call: its arguments, its result

vars == <<file, env, delivered, parsing_state_, buffer_, header_, feature_ids_,
          feature_headers_section_, feature_sections_, perf_session_,
          latest_timestamp_, sorter, stats, clock, features, status, aborted,
          probe, log, parser, sniffer>>

(***************************************************************************)
(* PerfEventAttr: the offsets of the time and of the sample id in a        *)
(* record, from the sample_type mask.  Every field counted is 8 bytes.     *)
(***************************************************************************)
CountSetFlags(sample_type, mask) == Cardinality(sample_type \cap mask)

time_offset_from_start(attr) ==
  IF "TIME" \notin attr.sample_type THEN <<>>
  ELSE <<CountSetFlags(attr.sample_type, {"IDENTIFIER", "IP", "TID"}) * WordSize>>

time_offset_from_end(attr) ==
  IF ~attr.sample_id_all \/ "TIME" \notin attr.sample_type THEN <<>>
  ELSE <<CountSetFlags(attr.sample_type,
                       {"TIME", "ID", "STREAM_ID", "CPU", "IDENTIFIER"}) * WordSize>>

id_offset_from_start(attr) ==
  IF "IDENTIFIER" \in attr.sample_type THEN <<0>>
  ELSE IF "ID" \in attr.sample_type
  THEN <<CountSetFlags(attr.sample_type, {"IP", "TID", "TIME", "ADDR"}) * WordSize>>
  ELSE <<>>

id_offset_from_end(attr) ==
  IF ~attr.sample_id_all THEN <<>>
  ELSE IF "IDENTIFIER" \in attr.sample_type THEN <<WordSize>>
  ELSE IF "ID" \in attr.sample_type
  THEN <<CountSetFlags(attr.sample_type,
                       {"ID", "STREAM_ID", "CPU", "IDENTIFIER"}) * WordSize>>
  ELSE <<>>

NullAttr == [idx |-> 0, sample_type |-> {}, sample_id_all |-> FALSE]

(***************************************************************************)
(* Reader over a payload of 8-byte fields: the uint64 at a byte offset,    *)
(* <<>> when the cursor would overrun.                                     *)
(***************************************************************************)
PayloadSize(payload) == Len(payload) * WordSize

ReadU64At(payload, off) ==
  IF off % WordSize = 0 /\ off >= 0 /\ off + WordSize <= PayloadSize(payload)
  THEN <<payload[(off \div WordSize) + 1]>>
  ELSE <<>>

(***************************************************************************)
(* TraceBlobViewReader.                                                    *)
(***************************************************************************)
PushBack(b, n) == [b EXCEPT !.end = @ + n]

empty(b) == b.start = b.end

start_offset(b) == b.start

\* Whether SliceOff(off, len) returns a view.
SliceOff(b, off, len) == off >= b.start /\ off + len <= b.end

\* Whether PopFrontUntil(target) returns true; below start it asserts.
PopFrontUntilOk(b, target) == target >= b.start /\ target <= b.end

\* The buffer after PopFrontUntil(target): short of target, all is dropped.
PopFrontUntil(b, target) ==
  IF target < b.start THEN b
  ELSE [b EXCEPT !.start = IF target <= b.end THEN target ELSE b.end]

(***************************************************************************)
(* ClockTracker::ToTraceTime(MONOTONIC, t) with MONOTONIC the trace clock, *)
(* <<>> when the translation fails; TraceSorter.                           *)
(***************************************************************************)
ToTraceTime(ts) == IF ts \in env.clock_fails THEN <<>> ELSE <<ts>>

max_timestamp(s) == s.max

PushPerfRecord(s, ts, record) ==
  [s EXCEPT !.max = Max(@, ts),
            !.pushed = Append(@, [ts |-> ts, record |-> record])]

(***************************************************************************)
(* AttrsSectionReader and PerfSession.                                     *)
(***************************************************************************)
NumAttrs(h) == IF h.attr_size = 0 THEN 0 ELSE h.attrs.size \div h.attr_size

ZeroEntry == [attr |-> [sample_type |-> {}, sample_id_all |-> FALSE],
              ids |-> Sec(0, 0), idvals |-> <<>>]

AttrsEntry(i) == IF i \in DOMAIN file.entries THEN file.entries[i] ELSE ZeroEntry

\* Reader::ReadVector over the ids sub-range of entry i.
ReadIds(i) ==
  LET e == AttrsEntry(i) IN
  [k \in 1..(e.ids.size \div WordSize) |->
     IF k \in DOMAIN e.idvals THEN e.idvals[k] ELSE 0]

NullSession == [id |-> 0, attrs |-> <<>>, meta |-> {}]

\* PerfSession::Builder::Build over the (attr, ids) pairs added.
Build(pairs) ==
  [id |-> 1, meta |-> {},
   attrs |-> [i \in DOMAIN pairs |->
                [idx |-> i, sample_type |-> pairs[i].attr.sample_type,
                 sample_id_all |-> pairs[i].attr.sample_id_all,
                 ids |-> pairs[i].ids]]]

AttrOf(a) == [idx |-> a.idx, sample_type |-> a.sample_type,
              sample_id_all |-> a.sample_id_all]

\* The sample id of a record, read where the session's attrs place it.
ReadEventId(session, hdr, payload) ==
  LET first == session.attrs[1]
      off == IF hdr.type = "SAMPLE" THEN id_offset_from_start(first)
             ELSE id_offset_from_end(first) IN
  IF off = <<>> THEN <<>>
  ELSE IF hdr.type = "SAMPLE" THEN ReadU64At(payload, off[1])
  ELSE IF off[1] > PayloadSize(payload) THEN <<>>
  ELSE ReadU64At(payload, PayloadSize(payload) - off[1])

\* PerfSession::FindAttrForRecord: <<attr>>, or <<>> for an error.
FindAttrForRecord(session, hdr, payload) ==
  IF Len(session.attrs) = 0 THEN <<>>
  ELSE IF Len(session.attrs) = 1 THEN <<AttrOf(session.attrs[1])>>
  ELSE LET id == ReadEventId(session, hdr, payload) IN
       IF id = <<>> THEN <<>>
       ELSE LET hit == {i \in DOMAIN session.attrs :
                          id[1] \in Range(session.attrs[i].ids)} IN
            IF hit = {} THEN <<>>
            ELSE <<AttrOf(session.attrs[CHOOSE i \in hit : \A j \in hit : i <= j])>>

(***************************************************************************)
(* The data section: record k starts where record k-1 ends.                *)
(***************************************************************************)
RecOffset(k) == file.header.data.offset + SumSizes(file.records, k - 1)

ZeroRecord == [type |-> "NONE", size |-> 0, payload |-> <<>>]

\* The record whose header lies at byte offset off (zero bytes elsewhere).
RecordAt(off) ==
  LET at == {k \in DOMAIN file.records : RecOffset(k) = off} IN
  IF at = {} THEN ZeroRecord ELSE file.records[CHOOSE k \in at : TRUE]

\* The payload view of a record: the 8-byte fields within header.size.
PayloadOf(rec) ==
  SubSeq(rec.payload, 1,
         IF rec.size - RecordHeaderSize >= PayloadSize(rec.payload)
         THEN Len(rec.payload)
         ELSE Max(0, (rec.size - RecordHeaderSize) \div WordSize))

(***************************************************************************)
(* The tokenizer.  Its state functions work on a record t of the members   *)
(* (and of the collaborators they touch), with three scratch fields: res,  *)
(* the ParsingResult or error a function returned; view and popped, what   *)
(* the last SliceOff and PopFrontUntil returned.                           *)
(***************************************************************************)
kSuccess == "kSuccess"
kMoreDataNeeded == "kMoreDataNeeded"
kAbort == "PERFETTO_CHECK"

\* buffer_.SliceOff(off, len), noting a request that starts below start_offset().
Slice(t, off, len) ==
  [t EXCEPT !.view = SliceOff(t.buffer, off, len),
            !.probe.slice_low = @ \/ off < start_offset(t.buffer)]

\* buffer_.PopFrontUntil(target); a target below start_offset() fails its check.
Pop(t, target) ==
  IF target < start_offset(t.buffer)
  THEN [t EXCEPT !.popped = FALSE, !.aborted = TRUE, !.res = kAbort,
                 !.probe.pop_low = TRUE]
  ELSE [t EXCEPT !.popped = PopFrontUntilOk(t.buffer, target),
                 !.buffer = PopFrontUntil(t.buffer, target)]

PopFrontBytes(t, n) == Pop(t, start_offset(t.buffer) + n)

\* The ids AddIds inserts from iteration i on: id_offset for a set low bit,
\* then the next bit and the next id (a uint8_t).
RECURSIVE IdsFromBit(_, _, _)
IdsFromBit(i, id_offset, flags) ==
  IF i = FlagBits THEN {}
  ELSE (IF flags % 2 = 1 THEN {id_offset} ELSE {})
       \cup IdsFromBit(i + 1, (id_offset + 1) % 256, flags \div 2)

AddIds(id_offset, flags, feature_ids) ==
  feature_ids \cup IdsFromBit(0, id_offset, flags)

\* ExtractFeatureIds that reads the flags word only.
ExtractFeatureIdsFlagsOnly(flags, flags1) == AddIds(0, flags, {})

ExtractFeatureIds(flags, flags1) ==
  AddIds(192, flags1[3], AddIds(128, flags1[2], AddIds(64, flags1[1],
         AddIds(0, flags, {}))))

\* memcmp(header_.magic, PerfFile::kPerfMagic, sizeof(kPerfMagic)) == 0, and
\* a variant that also takes the byte-swapped magic of a big-endian file.
MagicOkEitherEndian(h) == h.magic \in {kPerfMagic, "2ELIFREP"}

MagicOk(h) == h.magic = kPerfMagic

\* header_.size == sizeof(PerfFile::Header), and a variant that takes the
\* shorter header of an older file.
HeaderSizeAtMost(h) == h.size <= HeaderSize

HeaderSizeOk(h) == h.size = HeaderSize

\* ParseHeader setting the trace-time clock before it looks at the buffer.
ParseHeaderClockFirst(t) ==
  LET t1 == Slice([t EXCEPT !.clock = [trace_time_clock |-> "MONOTONIC",
                                        sets |-> @.sets + 1]],
                  0, HeaderSize) IN
  IF ~t1.view THEN [t1 EXCEPT !.res = kMoreDataNeeded]
  ELSE
    LET t2 == [t1 EXCEPT !.header = file.header] IN
    IF ~MagicOk(t2.header)
    THEN [t2 EXCEPT !.res = "Invalid magic string"]
    ELSE IF ~HeaderSizeOk(t2.header)
    THEN [t2 EXCEPT !.res = "Failed to perf file header size"]
    ELSE
      LET ids == ExtractFeatureIds(t2.header.flags, t2.header.flags1)
          t3 == [t2 EXCEPT
                   !.feature_ids = ids,
                   !.feature_headers_section =
                      Sec(End(t2.header.data), Cardinality(ids) * SectionSize)]
          t4 == Pop(t3, HeaderSize) IN
      IF ~t4.popped THEN [t4 EXCEPT !.aborted = TRUE, !.res = kAbort]
      ELSE [t4 EXCEPT !.parsing_state = "kParseAttrs", !.res = kSuccess]

\* ParseHeader(): the header is read once its 104 bytes are in the buffer.
ParseHeader(t) ==
  LET t1 == Slice(t, 0, HeaderSize) IN
  IF ~t1.view THEN [t1 EXCEPT !.res = kMoreDataNeeded]
  ELSE
    LET t2 == [t1 EXCEPT !.header = file.header] IN
    IF ~MagicOk(t2.header)
    THEN [t2 EXCEPT !.res = "Invalid magic string"]
    ELSE IF ~HeaderSizeOk(t2.header)
    THEN [t2 EXCEPT !.res = "Failed to perf file header size"]
    ELSE
      LET ids == ExtractFeatureIds(t2.header.flags, t2.header.flags1)
          t3 == [t2 EXCEPT
                   !.feature_ids = ids,
                   !.feature_headers_section =
                      Sec(End(t2.header.data), Cardinality(ids) * SectionSize),
                   !.clock = [trace_time_clock |-> "MONOTONIC", sets |-> @.sets + 1]]
          t4 == Pop(t3, HeaderSize) IN
      IF ~t4.popped THEN [t4 EXCEPT !.aborted = TRUE, !.res = kAbort]
      ELSE [t4 EXCEPT !.parsing_state = "kParseAttrs", !.res = kSuccess]

\* The loop of ParseAttrs over the entries, from entry i, pairs added so far.
RECURSIVE ParseAttrsFrom(_, _, _)
ParseAttrsFrom(t, i, pairs) ==
  IF i > NumAttrs(t.header)
  THEN [t EXCEPT !.session = Build(pairs), !.parsing_state = "kSeekRecords",
                 !.res = kSuccess]
  ELSE
    LET entry == AttrsEntry(i) IN
    IF entry.ids.size % WordSize # 0
    THEN [t EXCEPT !.res = "Invalid id section size"]
    ELSE
      LET t1 == Slice(t, entry.ids.offset, entry.ids.size) IN
      IF ~t1.view THEN [t1 EXCEPT !.res = kMoreDataNeeded]
      ELSE ParseAttrsFrom(t1, i + 1,
                          Append(pairs, [attr |-> entry.attr, ids |-> ReadIds(i)]))

\* ParseAttrs that does not wait for an ids sub-range: an entry whose ids
\* are not resident is added without ids.
RECURSIVE ParseAttrsFromEager(_, _, _)
ParseAttrsFromEager(t, i, pairs) ==
  IF i > NumAttrs(t.header)
  THEN [t EXCEPT !.session = Build(pairs), !.parsing_state = "kSeekRecords",
                 !.res = kSuccess]
  ELSE
    LET entry == AttrsEntry(i) IN
    IF entry.ids.size % WordSize # 0
    THEN [t EXCEPT !.res = "Invalid id section size"]
    ELSE
      LET t1 == Slice(t, entry.ids.offset, entry.ids.size) IN
      ParseAttrsFromEager(t1, i + 1,
                          Append(pairs, [attr |-> entry.attr,
                                         ids |-> IF t1.view THEN ReadIds(i)
                                                 ELSE <<>>]))

ParseAttrsEager(t) ==
  LET t1 == Slice(t, t.header.attrs.offset, t.header.attrs.size) IN
  IF ~t1.view THEN [t1 EXCEPT !.res = kMoreDataNeeded]
  ELSE ParseAttrsFromEager(t1, 1, <<>>)

ParseAttrs(t) ==
  LET t1 == Slice(t, t.header.attrs.offset, t.header.attrs.size) IN
  IF ~t1.view THEN [t1 EXCEPT !.res = kMoreDataNeeded]
  ELSE ParseAttrsFrom(t1, 1, <<>>)

\* SeekRecords with the result of PopFrontUntil ignored.
SeekRecordsUnchecked(t) ==
  LET t1 == Pop(t, t.header.data.offset) IN
  IF t1.aborted THEN t1
  ELSE [t1 EXCEPT !.parsing_state = "kParseRecords", !.res = kSuccess]

SeekRecords(t) ==
  LET t1 == Pop(t, t.header.data.offset) IN
  IF t1.aborted THEN t1
  ELSE IF ~t1.popped THEN [t1 EXCEPT !.res = kMoreDataNeeded]
  ELSE [t1 EXCEPT !.parsing_state = "kParseRecords", !.res = kSuccess]

NoRecord == [header |-> [type |-> "NONE", size |-> 0], offset |-> 0,
             payload |-> <<>>, attr |-> NullAttr, session |-> 0]

\* record.header.size >= sizeof(record.header), and a variant that only
\* refuses an empty record.
RecordSizeNonZero(hdr) == hdr.size > 0

RecordSizeOk(hdr) == hdr.size >= RecordHeaderSize

\* The end of ParseRecord with the error of FindAttrForRecord dropped: the
\* record goes on without an attr.
BindAttrLenient(t, attr) ==
  LET t1 == PopFrontBytes([t EXCEPT !.record.attr =
                                      IF attr = <<>> THEN NullAttr ELSE attr[1]],
                          t.record.header.size) IN
  IF t1.aborted THEN t1 ELSE [t1 EXCEPT !.res = kSuccess]

\* The end of ParseRecord taking only the record's header out of the buffer.
BindAttrPopHeader(t, attr) ==
  IF attr = <<>>
  THEN [t EXCEPT !.res = "Unable to determine perf_event_attr for record"]
  ELSE
    LET t1 == PopFrontBytes([t EXCEPT !.record.attr = attr[1]], RecordHeaderSize) IN
    IF t1.aborted THEN t1 ELSE [t1 EXCEPT !.res = kSuccess]

\* The end of ParseRecord: the attr found (<<>>: an error status) becomes
\* record.attr and the record's bytes leave the buffer.
BindAttr(t, attr) ==
  IF attr = <<>>
  THEN [t EXCEPT !.res = "Unable to determine perf_event_attr for record"]
  ELSE
    LET t1 == PopFrontBytes([t EXCEPT !.record.attr = attr[1]],
                            t.record.header.size) IN
    IF t1.aborted THEN t1 ELSE [t1 EXCEPT !.res = kSuccess]

\* ParseRecord(record): t.record is the record filled in.
ParseRecord(t) ==
  LET at == start_offset(t.buffer)
      raw == RecordAt(at)
      r0 == [NoRecord EXCEPT !.session = t.session.id]
      t1 == Slice([t EXCEPT !.record = r0], at, RecordHeaderSize) IN
  IF ~t1.view THEN [t1 EXCEPT !.res = kMoreDataNeeded]
  ELSE
    LET r1 == [r0 EXCEPT !.header = [type |-> raw.type, size |-> raw.size],
                         !.offset = at]
        t2 == [t1 EXCEPT !.record = r1] IN
    IF ~RecordSizeOk(r1.header)
    THEN [t2 EXCEPT !.res = "Invalid record size"]
    ELSE
      LET t3 == Slice(t2, at + RecordHeaderSize,
                      r1.header.size - RecordHeaderSize) IN
      IF ~t3.view THEN [t3 EXCEPT !.res = kMoreDataNeeded]
      ELSE
        LET r2 == [r1 EXCEPT !.payload = PayloadOf(raw)] IN
        BindAttr([t3 EXCEPT !.record = r2],
                 FindAttrForRecord(t3.session, r2.header, r2.payload))

\* ReadTime that finds a time in SAMPLE records only.
ReadTimeSampleOnly(record) ==
  IF record.attr.idx = 0 \/ record.header.type # "SAMPLE"
  THEN [ok |-> TRUE, time |-> <<>>]
  ELSE
    LET offset == time_offset_from_start(record.attr) IN
    IF offset = <<>> THEN [ok |-> TRUE, time |-> <<>>]
    ELSE
      LET v == ReadU64At(record.payload, offset[1]) IN
      [ok |-> v # <<>>, time |-> v]

\* ReadTime(record, time): [ok, time], time <<>> for std::nullopt.
ReadTime(record) ==
  IF record.attr.idx = 0 THEN [ok |-> TRUE, time |-> <<>>]
  ELSE IF record.header.type # "SAMPLE"
  THEN
    LET offset == time_offset_from_end(record.attr) IN
    IF offset = <<>> THEN [ok |-> TRUE, time |-> <<>>]
    ELSE IF offset[1] > PayloadSize(record.payload) THEN [ok |-> FALSE, time |-> <<>>]
    ELSE
      LET v == ReadU64At(record.payload, PayloadSize(record.payload) - offset[1]) IN
      [ok |-> v # <<>>, time |-> v]
  ELSE
    LET offset == time_offset_from_start(record.attr) IN
    IF offset = <<>> THEN [ok |-> TRUE, time |-> <<>>]
    ELSE
      LET v == ReadU64At(record.payload, offset[1]) IN
      [ok |-> v # <<>>, time |-> v]

\* ToTraceTimestamp with latest_timestamp_ set to the last translation.
ToTraceTimestampLast(t, time) ==
  LET trace_ts == IF time # <<>> THEN ToTraceTime(ToInt64(time[1]))
                  ELSE <<Max(t.latest_timestamp, max_timestamp(t.sorter))>> IN
  IF trace_ts # <<>>
  THEN [t EXCEPT !.latest_timestamp = trace_ts[1], !.trace_ts = trace_ts]
  ELSE [t EXCEPT !.trace_ts = trace_ts]

\* ToTraceTimestamp with a record without time put at latest_timestamp_.
ToTraceTimestampOwn(t, time) ==
  LET trace_ts == IF time # <<>> THEN ToTraceTime(ToInt64(time[1]))
                  ELSE <<t.latest_timestamp>> IN
  IF trace_ts # <<>>
  THEN [t EXCEPT !.latest_timestamp = Max(@, trace_ts[1]), !.trace_ts = trace_ts]
  ELSE [t EXCEPT !.trace_ts = trace_ts]

\* ToTraceTimestamp(time): t.trace_ts is the StatusOr returned (<<>>: error).
ToTraceTimestamp(t, time) ==
  LET trace_ts == IF time # <<>> THEN ToTraceTime(ToInt64(time[1]))
                  ELSE <<Max(t.latest_timestamp, max_timestamp(t.sorter))>> IN
  IF trace_ts # <<>>
  THEN [t EXCEPT !.latest_timestamp = Max(@, trace_ts[1]), !.trace_ts = trace_ts]
  ELSE [t EXCEPT !.trace_ts = trace_ts]

\* The switch of PushRecord with PERF_RECORD_AUX as its only case.
IsAuxTypeAuxOnly(type) == type = "AUX"

IsAuxType(type) == type \in {"AUXTRACE_INFO", "AUXTRACE", "AUX"}

\* PushRecord that pushes a record whose timestamp step failed, at
\* latest_timestamp_.
PushRecordKeepFailed(t, record) ==
  LET rt == ReadTime(record)
      t1 == IF rt.ok THEN ToTraceTimestamp(t, rt.time) ELSE t
      ts == IF rt.ok /\ t1.trace_ts # <<>> THEN t1.trace_ts[1]
            ELSE t.latest_timestamp IN
  IF IsAuxType(record.header.type) THEN [t1 EXCEPT !.pushed_ok = TRUE]
  ELSE [t1 EXCEPT !.sorter = PushPerfRecord(@, ts, record), !.pushed_ok = TRUE]

\* PushRecord(record): t.pushed_ok is the bool returned.
PushRecord(t, record) ==
  LET rt == ReadTime(record) IN
  IF ~rt.ok THEN [t EXCEPT !.pushed_ok = FALSE]
  ELSE
    LET t1 == ToTraceTimestamp(t, rt.time) IN
    IF t1.trace_ts = <<>> THEN [t1 EXCEPT !.pushed_ok = FALSE]
    ELSE IF IsAuxType(record.header.type) THEN [t1 EXCEPT !.pushed_ok = TRUE]
    ELSE [t1 EXCEPT !.sorter = PushPerfRecord(@, t1.trace_ts[1], record),
                    !.pushed_ok = TRUE]

\* ParseRecords without the IncrementStats of a record not pushed.
RECURSIVE ParseRecordsUncounted(_)
ParseRecordsUncounted(t) ==
  IF start_offset(t.buffer) < End(t.header.data)
  THEN
    LET t1 == ParseRecord(t) IN
    IF t1.res # kSuccess THEN t1
    ELSE ParseRecordsUncounted(PushRecord(t1, t1.record))
  ELSE [t EXCEPT !.parsing_state = "kParseFeatureSections", !.res = kSuccess]

\* ParseRecords(): the loop over the records of the data section.
RECURSIVE ParseRecords(_)
ParseRecords(t) ==
  IF start_offset(t.buffer) < End(t.header.data)
  THEN
    LET t1 == ParseRecord(t) IN
    IF t1.res # kSuccess THEN t1
    ELSE
      LET t2 == PushRecord(t1, t1.record) IN
      ParseRecords(IF ~t2.pushed_ok
                   THEN [t2 EXCEPT !.stats.perf_record_skipped = @ + 1]
                   ELSE t2)
  ELSE [t EXCEPT !.parsing_state = "kParseFeatureSections", !.res = kSuccess]

(***************************************************************************)
(* Feature sections.                                                       *)
(***************************************************************************)
ID_BUILD_ID == 2
ID_CMD_LINE == 11
ID_EVENT_DESC == 12
ID_GROUP_DESC == 18
ID_SIMPLEPERF_META_INFO == 129
ID_SIMPLEPERF_FILE2 == 134

\* The k-th Section of the feature index, which starts at data.end.
IndexEntry(k) ==
  IF k \in DOMAIN file.feature_index THEN file.feature_index[k] ELSE Sec(0, 0)

\* The ids of a FlatSet in iteration (ascending) order.
RECURSIVE Ascending(_)
Ascending(S) ==
  IF S = {} THEN <<>>
  ELSE LET m == CHOOSE x \in S : \A y \in S : x <= y IN <<m>> \o Ascending(S \ {m})

\* The sections left as read, in ascending order of feature id.
Unsorted(s) == s

\* std::sort by descending section offset (insertion into a sorted sequence).
RECURSIVE SortDescending(_)
InsertDescending(sorted, e) ==
  LET before == {i \in DOMAIN sorted : sorted[i].section.offset > e.section.offset}
      n == Cardinality(before) IN
  SubSeq(sorted, 1, n) \o <<e>> \o SubSeq(sorted, n + 1, Len(sorted))

SortDescending(s) ==
  IF s = <<>> THEN <<>>
  ELSE InsertDescending(SortDescending(SubSeq(s, 1, Len(s) - 1)), s[Len(s)])

\* ParseFeatureSections going to kDone whatever sections it read.
ParseFeatureSectionsToDone(t) ==
  IF start_offset(t.buffer) # End(t.header.data)
  THEN [t EXCEPT !.aborted = TRUE, !.res = kAbort]
  ELSE
    LET t1 == Slice(t, t.feature_headers_section.offset,
                    t.feature_headers_section.size) IN
    IF ~t1.view THEN [t1 EXCEPT !.res = kMoreDataNeeded]
    ELSE
      LET ids == Ascending(t1.feature_ids)
          read == [k \in DOMAIN ids |-> [id |-> ids[k], section |-> IndexEntry(k)]]
          t2 == [t1 EXCEPT !.feature_sections = SortDescending(@ \o read)]
          t3 == Pop(t2, End(t2.feature_headers_section)) IN
      IF t3.aborted THEN t3
      ELSE [t3 EXCEPT !.parsing_state = "kDone",
                      !.res = kSuccess]

ParseFeatureSections(t) ==
  IF start_offset(t.buffer) # End(t.header.data)
  THEN [t EXCEPT !.aborted = TRUE, !.res = kAbort]
  ELSE
    LET t1 == Slice(t, t.feature_headers_section.offset,
                    t.feature_headers_section.size) IN
    IF ~t1.view THEN [t1 EXCEPT !.res = kMoreDataNeeded]
    ELSE
      LET ids == Ascending(t1.feature_ids)
          read == [k \in DOMAIN ids |-> [id |-> ids[k], section |-> IndexEntry(k)]]
          t2 == [t1 EXCEPT !.feature_sections = SortDescending(@ \o read)]
          t3 == Pop(t2, End(t2.feature_headers_section)) IN
      IF t3.aborted THEN t3
      ELSE [t3 EXCEPT !.parsing_state = IF t3.feature_sections = <<>>
                                        THEN "kDone" ELSE "kParseFeatures",
                      !.res = kSuccess]

\* ParseFeature that refuses a feature id it has no case for.
ParseFeatureUnknownFails(t, feature_id) ==
  LET bad == feature_id \in file.bad_features
      seen == [t EXCEPT !.features = Append(@, feature_id)] IN
  IF feature_id \in {ID_CMD_LINE, ID_EVENT_DESC, ID_BUILD_ID, ID_SIMPLEPERF_META_INFO}
  THEN IF bad THEN [seen EXCEPT !.res = "Invalid feature payload"]
       ELSE [seen EXCEPT !.session.meta = @ \cup {feature_id}, !.res = "OK"]
  ELSE IF feature_id \in {ID_GROUP_DESC, ID_SIMPLEPERF_FILE2}
  THEN IF bad THEN [seen EXCEPT !.res = "Invalid feature payload"]
       ELSE [seen EXCEPT !.res = "OK"]
  ELSE [seen EXCEPT !.stats.perf_features_skipped = @ \o <<feature_id>>,
                    !.res = "Invalid feature payload"]

\* ParseFeature(feature_id, data): t.res is the status ("OK" or the error).
ParseFeature(t, feature_id) ==
  LET bad == feature_id \in file.bad_features
      seen == [t EXCEPT !.features = Append(@, feature_id)] IN
  IF feature_id \in {ID_CMD_LINE, ID_EVENT_DESC, ID_BUILD_ID, ID_SIMPLEPERF_META_INFO}
  THEN IF bad THEN [seen EXCEPT !.res = "Invalid feature payload"]
       ELSE [seen EXCEPT !.session.meta = @ \cup {feature_id}, !.res = "OK"]
  ELSE IF feature_id \in {ID_GROUP_DESC, ID_SIMPLEPERF_FILE2}
  THEN IF bad THEN [seen EXCEPT !.res = "Invalid feature payload"]
       ELSE [seen EXCEPT !.res = "OK"]
  ELSE [seen EXCEPT !.stats.perf_features_skipped = @ \o <<feature_id>>,
                    !.res = "OK"]

RECURSIVE ParseFeatures(_)
ParseFeatures(t) ==
  IF t.feature_sections # <<>>
  THEN
    LET back == t.feature_sections[Len(t.feature_sections)]
        t1 == Slice(t, back.section.offset, back.section.size) IN
    IF ~t1.view THEN [t1 EXCEPT !.res = kMoreDataNeeded]
    ELSE
      LET t2 == ParseFeature(t1, back.id) IN
      IF t2.res # "OK" THEN t2
      ELSE
        LET t3 == Pop(t2, End(back.section)) IN
        IF t3.aborted THEN t3
        ELSE ParseFeatures([t3 EXCEPT !.feature_sections =
                                         SubSeq(@, 1, Len(@) - 1)])
  ELSE [t EXCEPT !.parsing_state = "kDone", !.res = kSuccess]

(***************************************************************************)
(* Parse(blob): one call, for a blob of n bytes.                           *)
(***************************************************************************)
\* The state functions with kDone asking for more data.
RunStateDoneWaits(t) ==
  CASE t.parsing_state = "kParseHeader" -> ParseHeader(t)
    [] t.parsing_state = "kParseAttrs" -> ParseAttrs(t)
    [] t.parsing_state = "kSeekRecords" -> SeekRecords(t)
    [] t.parsing_state = "kParseRecords" -> ParseRecords(t)
    [] t.parsing_state = "kParseFeatures" -> ParseFeatures(t)
    [] t.parsing_state = "kParseFeatureSections" -> ParseFeatureSections(t)
    [] t.parsing_state = "kDone" -> [t EXCEPT !.res = kMoreDataNeeded]

\* The state function of the current parsing_state_.
RunState(t) ==
  CASE t.parsing_state = "kParseHeader" -> ParseHeader(t)
    [] t.parsing_state = "kParseAttrs" -> ParseAttrs(t)
    [] t.parsing_state = "kSeekRecords" -> SeekRecords(t)
    [] t.parsing_state = "kParseRecords" -> ParseRecords(t)
    [] t.parsing_state = "kParseFeatures" -> ParseFeatures(t)
    [] t.parsing_state = "kParseFeatureSections" -> ParseFeatureSections(t)
    [] t.parsing_state = "kDone" -> [t EXCEPT !.res = "Unexpected data"]

Logged(before, after) ==
  [after EXCEPT !.log = Append(@, [fn |-> before.parsing_state,
                                   res |-> after.res,
                                   next |-> after.parsing_state,
                                   start |-> start_offset(after.buffer),
                                   pushed |-> Len(after.sorter.pushed)])]

\* The loop of Parse, dropping what the buffer holds when a state function
\* returns an error.
RECURSIVE ParseLoopDropOnError(_)
ParseLoopDropOnError(t) ==
  IF t.res = kSuccess /\ ~empty(t.buffer)
  THEN ParseLoopDropOnError(Logged(t, RunState(t)))
  ELSE IF t.res \in {kSuccess, kMoreDataNeeded, kAbort} THEN t
  ELSE [t EXCEPT !.buffer.start = t.buffer.end]

\* The loop of Parse running one state function per call.
ParseLoopOnce(t) ==
  IF t.res = kSuccess /\ ~empty(t.buffer)
  THEN Logged(t, RunState(t))
  ELSE t

\* The loop of Parse: state functions run while the last one returned
\* kSuccess and the buffer is not empty.
RECURSIVE ParseLoop(_)
ParseLoop(t) ==
  IF t.res = kSuccess /\ ~empty(t.buffer)
  THEN ParseLoop(Logged(t, RunState(t)))
  ELSE t

\* result.status() with kMoreDataNeeded reported as an error.
StatusOfStrict(res) == IF res = kSuccess THEN "OK" ELSE res

\* result.status(): both ParsingResults are an OK status.
StatusOf(res) == IF res \in {kSuccess, kMoreDataNeeded} THEN "OK" ELSE res

Parse(t, n) ==
  ParseLoop([t EXCEPT !.buffer = PushBack(@, n), !.res = kSuccess, !.log = <<>>])

(***************************************************************************)
(* RecordParser::ParseRecord: the function a record of this type goes to.  *)
(***************************************************************************)
kFatal == "PERFETTO_FATAL"

RecordDispatch(type) ==
  CASE type = "COMM" -> "ParseComm"
    [] type = "SAMPLE" -> "ParseSample"
    [] type = "MMAP" -> "ParseMmap"
    [] type = "MMAP2" -> "ParseMmap2"
    [] type \in {"AUX", "AUXTRACE", "AUXTRACE_INFO"} -> kFatal
    [] OTHER -> "Unknown PERF_RECORD"

(***************************************************************************)
(* The files imported: a well-formed layout (header, attrs entries, their  *)
(* ids, the records, the feature index, the feature sections, in that      *)
(* order) and the malformed variants of it.                                *)
(***************************************************************************)
\* Most records of one file of the family.
MaxRecords == 2

AttrS1 == [sample_type |-> {"TID", "TIME"}, sample_id_all |-> TRUE]
AttrS2 == [sample_type |-> {"TID", "TIME", "ID"}, sample_id_all |-> TRUE]
AttrNoAll == [sample_type |-> {"TID", "TIME", "ID"}, sample_id_all |-> FALSE]
AttrNoTime == [sample_type |-> {"TID", "ID"}, sample_id_all |-> TRUE]

Rec(type, payload) ==
  [type |-> type, size |-> RecordHeaderSize + PayloadSize(payload),
   payload |-> payload]

RECURSIVE IdsBefore(_, _)
IdsBefore(entries, i) ==
  IF i = 0 THEN 0 ELSE IdsBefore(entries, i - 1) + Len(entries[i].idvals)

ZeroHeader == [magic |-> "", size |-> 0, attr_size |-> 0, attrs |-> Sec(0, 0),
               data |-> Sec(0, 0), flags |-> 0, flags1 |-> <<0, 0, 0>>]

\* The well-formed file of these attrs (with their ids), records and flags;
\* feature sections lie in ascending or descending order of feature id.
Layout(entries, recs, flags, flags1, ascending) ==
  LET n == Len(entries)
      attrs == Sec(HeaderSize, n * FamAttrSize)
      idsOff(i) == End(attrs) + WordSize * IdsBefore(entries, i - 1)
      data == Sec(idsOff(n + 1), SumSizes(recs, Len(recs)))
      nfeat == Cardinality(ExtractFeatureIds(flags, flags1))
      indexEnd == End(data) + nfeat * SectionSize
      pos(k) == IF ascending THEN k - 1 ELSE nfeat - k IN
  [header |-> [magic |-> kPerfMagic, size |-> HeaderSize,
               attr_size |-> FamAttrSize, attrs |-> attrs, data |-> data,
               flags |-> flags, flags1 |-> flags1],
   entries |-> [i \in 1..n |->
                  [attr |-> entries[i].attr,
                   ids |-> Sec(idsOff(i), WordSize * Len(entries[i].idvals)),
                   idvals |-> entries[i].idvals]],
   records |-> recs,
   feature_index |-> [k \in 1..nfeat |->
                        Sec(indexEnd + pos(k) * FamFeatSize, FamFeatSize)],
   bad_features |-> {},
   len |-> indexEnd + nfeat * FamFeatSize]

One(attr) == <<[attr |-> attr, idvals |-> <<>>]>>
Two == <<[attr |-> AttrS2, idvals |-> <<10>>], [attr |-> AttrS2, idvals |-> <<20>>]>>

SeqsUpTo(S, n) == UNION {[1..k -> S] : k \in 0..n}

\* Records of a two-attr session: fields tid, time, id, after the body.
KindsTwo ==
  {Rec("SAMPLE", <<42, 1, 20>>), Rec("COMM", <<42, 7, 42, Int64Max + 1, 10>>),
   Rec("AUX", <<42, Int64Max, 10>>), Rec("SAMPLE", <<42, 1, 99>>)}

\* Records of a one-attr session whose non-SAMPLE records carry no time.
KindsNoAll ==
  {Rec("SAMPLE", <<42, 1, 10>>), Rec("SAMPLE", <<42, 2, 10>>),
   Rec("COMM", <<42, 7>>), Rec("SAMPLE", <<>>),
   [type |-> "COMM", size |-> 4, payload |-> <<>>]}

\* Records of a one-attr session with sample_id_all: fields tid, time.
KindsS1 ==
  {Rec("SAMPLE", <<42, Int64Max>>), Rec("COMM", <<42, 7, 42, 1>>),
   Rec("MMAP", <<>>), Rec("AUXTRACE", <<42, 2>>)}

RecordFiles ==
  {Layout(Two, recs, 0, <<0, 0, 0>>, TRUE) : recs \in SeqsUpTo(KindsTwo, MaxRecords)}
  \cup {Layout(One(AttrNoAll), recs, 0, <<0, 0, 0>>, TRUE) :
          recs \in SeqsUpTo(KindsNoAll, MaxRecords)}
  \cup {Layout(One(AttrS1), recs, 0, <<0, 0, 0>>, TRUE) :
          recs \in SeqsUpTo(KindsS1, MaxRecords)}
  \cup {Layout(One(AttrNoTime), <<Rec("SAMPLE", <<42, 10>>), Rec("COMM", <<42, 7, 42, 10>>)>>,
               0, <<0, 0, 0>>, TRUE)}
  \cup {Layout(One(AttrNoTime), <<Rec("AUXTRACE_INFO", <<42>>), Rec("MMAP2", <<42, 10>>)>>,
               0, <<0, 0, 0>>, TRUE)}

\* Files with feature sections: flags sets BUILD_ID (2) and CMD_LINE (11) or
\* an unknown id (3), flags1[1] the simpleperf ids 129 and 134 (bits 1, 6);
\* or bit 30 of flags and of flags1[2] and bit 0 of flags1[0] (ids 30, 222, 64);
\* or an unknown id and GROUP_DESC (3, 18).  The variants: a feature the
\* parser refuses, bytes after the last section, a section below the buffer
\* start, overlapping sections, a data section that ends 8 bytes before
\* its one record does, and 4 bytes between the two sections.
FeatureFiles ==
  LET W == Layout(One(AttrS1), <<Rec("COMM", <<42, 7, 42, 1>>)>>,
                  2052, <<0, 0, 0>>, TRUE)
      X == Layout(One(AttrS1), <<>>, 12, <<0, 66, 0>>, FALSE) IN
  {W, X,
   Layout(One(AttrS1), <<>>, 2^30, <<1, 0, 2^30>>, TRUE),
   Layout(One(AttrS1), <<>>, 2^18 + 2^3, <<0, 0, 0>>, TRUE),
   [W EXCEPT !.bad_features = {ID_CMD_LINE}],
   [W EXCEPT !.bad_features = {ID_BUILD_ID}],
   [W EXCEPT !.len = @ + 3],
   [W EXCEPT !.feature_index[1] = Sec(0, WordSize)],
   [X EXCEPT !.feature_index[2].offset = @ + 1, !.len = @ + 1],
   [W EXCEPT !.header.data.size = @ - WordSize],
   [W EXCEPT !.feature_index[2].offset = @ + 4, !.len = @ + 4]}

\* Files whose header or attrs section is malformed, or that are cut short.
HeaderFiles ==
  LET W == Layout(Two, <<Rec("SAMPLE", <<42, 1, 20>>)>>, 0, <<0, 0, 0>>, TRUE) IN
  {[W EXCEPT !.header.magic = "NOTPERF!"],
   [W EXCEPT !.header.magic = "2ELIFREP"],
   [W EXCEPT !.header.size = HeaderSize - WordSize],
   [W EXCEPT !.header.magic = "NOTPERF!", !.header.size = 0],
   [W EXCEPT !.header.attrs.offset = 0],
   [W EXCEPT !.header.data.offset = HeaderSize - WordSize],
   [W EXCEPT !.entries[2].ids.size = 4],
   [W EXCEPT !.entries[1].ids.offset = 0],
   [W EXCEPT !.header.data.size = @ + 10, !.len = @ + 4],
   [W EXCEPT !.header.attrs.size = 0],
   [W EXCEPT !.header.data.offset = @ + WordSize, !.len = @ + WordSize],
   [W EXCEPT !.len = @ + 2]}

\* The 8 bytes "init\0\0\0\0" of a COMM record read as a little-endian
\* uint64: a positive value that fits int64.
InitWord == Int64Max

\* Scenario S1: one attr (TID|TIME, sample_id_all), no ids, and one 24-byte
\* COMM record: pid and tid 42, then "init" padded to 8 bytes.
S1File == Layout(One(AttrS1), <<Rec("COMM", <<42, InitWord>>)>>, 0, <<0, 0, 0>>, TRUE)

Files == RecordFiles \cup FeatureFiles \cup HeaderFiles \cup {S1File}

\* The clock tracker fails on no time or on time 2; the sorter has seen
\* nothing or, from another reader, timestamp 2.
Envs ==
  {[clock_fails |-> {}, sorter_init |-> 0], [clock_fails |-> {2}, sorter_init |-> 0],
   [clock_fails |-> {}, sorter_init |-> 2]}

(***************************************************************************)
(* RecordParser.  Its functions work on a record p of the collaborators   *)
(* reached through context_: the process tracker (threads), the mapping    *)
(* tracker (kernel and user mappings), the frames and callsites interned,  *)
(* the perf_sample table, the per-CPU counters of the attrs (as the list   *)
(* of updates made), the stats; and of what the last ParsePerfRecord did:  *)
(* calls, the tracker calls of InternCallchain; res, the status returned;  *)
(* callsite, the std::optional<CallsiteId> InternCallchain returned;       *)
(* fatal, whether a PERFETTO_FATAL was hit.                                *)
(***************************************************************************)
\* ProcessTracker::UpdateThread(tid, pid): the thread table after the call;
\* a utid is a position in it, the upid of a thread its pid.
UpdateThread(threads, tid, pid) ==
  IF \E u \in DOMAIN threads : threads[u] = [tid |-> tid, pid |-> pid]
  THEN threads
  ELSE Append(threads, [tid |-> tid, pid |-> pid])

UtidOf(threads, tid, pid) ==
  CHOOSE u \in DOMAIN threads : threads[u] = [tid |-> tid, pid |-> pid]

\* MappingTracker::FindKernelMappingForAddress(ip): <<mapping>> or <<>>.
FindKernelMappingForAddress(p, ip) ==
  LET hit == {i \in DOMAIN p.kernel :
                p.kernel[i].start <= ip /\ ip < p.kernel[i].end} IN
  IF hit = {} THEN <<>>
  ELSE <<[kind |-> "kernel", at |-> CHOOSE i \in hit : \A j \in hit : j <= i]>>

\* MappingTracker::FindUserMappingForAddress(upid, ip): <<mapping>> or <<>>.
FindUserMappingForAddress(p, upid, ip) ==
  LET hit == {i \in DOMAIN p.user :
                /\ p.user[i].upid = upid
                /\ p.user[i].params.start <= ip /\ ip < p.user[i].params.end} IN
  IF hit = {} THEN <<>>
  ELSE <<[kind |-> "user", at |-> CHOOSE i \in hit : \A j \in hit : j <= i]>>

GetDummyMapping == [kind |-> "dummy", at |-> 0]

\* VirtualMemoryMapping::ToRelativePc(ip).
ToRelativePc(p, mapping, ip) ==
  CASE mapping.kind = "kernel" -> ip - p.kernel[mapping.at].start
    [] mapping.kind = "user" -> ip - p.user[mapping.at].params.start
    [] OTHER -> ip

\* Interning: the table with the row, and the row's id (its position).
Interned(table, row) ==
  IF \E i \in DOMAIN table : table[i] = row THEN table ELSE Append(table, row)

IdIn(table, row) == CHOOSE i \in DOMAIN table : table[i] = row

\* IsInKernel(cpu_mode): MODE_UNKNOWN is a PERFETTO_FATAL.
IsInKernelFatal(cpu_mode) == cpu_mode = "MODE_UNKNOWN"

IsInKernel(cpu_mode) == cpu_mode \in {"MODE_GUEST_KERNEL", "MODE_KERNEL"}

Reverse(s) == [i \in DOMAIN s |-> s[Len(s) + 1 - i]]

\* The frames in the order the loop of InternCallchain takes them, and the
\* same from the first element on.
FrameOrderForward(callchain) == callchain

FrameOrder(callchain) == Reverse(callchain)

\* The same iteration without the IncrementStats of a frame that has no
\* mapping.
InternCallchainStepUncounted(p, upid, it, parent, depth) ==
  IF IsInKernelFatal(it.cpu_mode) THEN [p EXCEPT !.fatal = TRUE]
  ELSE
    LET kernel == IsInKernel(it.cpu_mode)
        found == IF kernel THEN FindKernelMappingForAddress(p, it.ip)
                 ELSE FindUserMappingForAddress(p, upid, it.ip)
        lookup == IF kernel
                  THEN [fn |-> "FindKernelMappingForAddress", upid |-> <<>>,
                        ip |-> it.ip]
                  ELSE [fn |-> "FindUserMappingForAddress", upid |-> <<upid>>,
                        ip |-> it.ip]
        mapping == IF found = <<>> THEN GetDummyMapping ELSE found[1]
        frame == [mapping |-> mapping, rel_pc |-> ToRelativePc(p, mapping, it.ip)]
        frames == Interned(p.frames, frame)
        row == [parent |-> parent, frame |-> IdIn(frames, frame), depth |-> depth]
        callsites == Interned(p.callsites, row) IN
    [p EXCEPT !.frames = frames, !.callsites = callsites,
              !.calls = @ \o <<lookup,
                               [fn |-> "InternCallsite", parent |-> parent,
                                frame |-> row.frame, depth |-> depth,
                                id |-> IdIn(callsites, row)]>>,
              !.callsite = <<IdIn(callsites, row)>>]

\* One iteration of the loop of InternCallchain, for frame it.
InternCallchainStep(p, upid, it, parent, depth) ==
  IF IsInKernelFatal(it.cpu_mode) THEN [p EXCEPT !.fatal = TRUE]
  ELSE
    LET kernel == IsInKernel(it.cpu_mode)
        found == IF kernel THEN FindKernelMappingForAddress(p, it.ip)
                 ELSE FindUserMappingForAddress(p, upid, it.ip)
        lookup == IF kernel
                  THEN [fn |-> "FindKernelMappingForAddress", upid |-> <<>>,
                        ip |-> it.ip]
                  ELSE [fn |-> "FindUserMappingForAddress", upid |-> <<upid>>,
                        ip |-> it.ip]
        mapping == IF found = <<>> THEN GetDummyMapping ELSE found[1]
        frame == [mapping |-> mapping, rel_pc |-> ToRelativePc(p, mapping, it.ip)]
        frames == Interned(p.frames, frame)
        row == [parent |-> parent, frame |-> IdIn(frames, frame), depth |-> depth]
        callsites == Interned(p.callsites, row) IN
    [p EXCEPT !.frames = frames, !.callsites = callsites,
              !.stats.perf_dummy_mapping_used =
                 IF found = <<>> THEN @ + 1 ELSE @,
              !.calls = @ \o <<lookup,
                               [fn |-> "InternCallsite", parent |-> parent,
                                frame |-> row.frame, depth |-> depth,
                                id |-> IdIn(callsites, row)]>>,
              !.callsite = <<IdIn(callsites, row)>>]

\* The loop of InternCallchain over the frames left, in loop order.
RECURSIVE InternFrames(_, _, _, _, _)
InternFrames(p, upid, left, parent, depth) ==
  IF left = <<>> \/ p.fatal THEN p
  ELSE
    LET p1 == InternCallchainStep(p, upid, left[1], parent, depth) IN
    InternFrames(p1, upid, Tail(left), p1.callsite, depth + 1)

\* InternCallchain(upid, callchain): p.callsite is the value returned.
InternCallchain(p, upid, callchain) ==
  IF callchain = <<>> THEN [p EXCEPT !.callsite = <<>>]
  ELSE InternFrames(p, upid, FrameOrder(callchain), <<>>, 0)

\* PerfSession::LookupBuildId(pid, filename): <<build_id>> or <<>>.
LookupBuildId(session, pid, filename) ==
  LET hit == {b \in session.build_ids : b.pid = pid /\ b.filename = filename} IN
  IF hit = {} THEN <<>> ELSE <<(CHOOSE b \in hit : TRUE).build_id>>

\* PerfSession::FindAttrForEventId(id): the attr's position, 0 for null.
FindAttrForEventId(session, id) ==
  IF \E a \in DOMAIN session.attrs : id \in session.attrs[a].ids
  THEN CHOOSE a \in DOMAIN session.attrs : id \in session.attrs[a].ids
  ELSE 0

\* Sample::Parse(ts, record): <<sample>>, or <<>> on a read underrun.  The
\* record carries its fields as decoded; trace_ts, cpu_mode, attr come from
\* the call and the record.
SampleParse(ts, record) ==
  IF record.decoded = <<>> THEN <<>>
  ELSE <<[time |-> record.decoded[1].time, pid_tid |-> record.decoded[1].pid_tid,
          cpu |-> record.decoded[1].cpu, ip |-> record.decoded[1].ip,
          callchain |-> record.decoded[1].callchain,
          period |-> record.decoded[1].period,
          read_groups |-> record.decoded[1].read_groups,
          trace_ts |-> ts, cpu_mode |-> record.cpu_mode, attr |-> record.attr]>>

BuildCreateMappingParams(fields, filename, build_id) ==
  [start |-> fields.addr, end |-> fields.addr + fields.len,
   exact_offset |-> fields.pgoff, start_offset |-> 0, load_bias |-> 0,
   name |-> filename, build_id |-> build_id]

\* MappingTracker::CreateKernelMemoryMapping and CreateUserMemoryMapping.
CreateKernelMemoryMapping(p, params) ==
  [p EXCEPT !.kernel = Append(@, params)]

CreateUserMemoryMapping(p, upid, params) ==
  [p EXCEPT !.user = Append(@, [upid |-> upid, params |-> params])]

\* The loop going on after an entry whose event id has no attr.
RECURSIVE ReadGroupsLoopSkipping(_, _, _)
ReadGroupsLoopSkipping(p, sample, left) ==
  IF left = <<>> THEN [p EXCEPT !.res = "OK"]
  ELSE
    LET attr == FindAttrForEventId(p.session, left[1].event_id) IN
    IF attr = 0
    THEN [ReadGroupsLoopSkipping(p, sample, Tail(left))
          EXCEPT !.res = "No perf_event_attr for id"]
    ELSE ReadGroupsLoopSkipping(
           [p EXCEPT !.counters =
              Append(@, [attr |-> attr, cpu |-> sample.cpu[1], op |-> "AddCount",
                         ts |-> sample.trace_ts, value |-> left[1].value])],
           sample, Tail(left))

\* UpdateCountersInReadGroups: the loop over the entries left.
RECURSIVE ReadGroupsLoop(_, _, _)
ReadGroupsLoop(p, sample, left) ==
  IF left = <<>> THEN [p EXCEPT !.res = "OK"]
  ELSE
    LET attr == FindAttrForEventId(p.session, left[1].event_id) IN
    IF attr = 0 THEN [p EXCEPT !.res = "No perf_event_attr for id"]
    ELSE ReadGroupsLoop(
           [p EXCEPT !.counters =
              Append(@, [attr |-> attr, cpu |-> sample.cpu[1], op |-> "AddCount",
                         ts |-> sample.trace_ts, value |-> left[1].value])],
           sample, Tail(left))

UpdateCountersInReadGroups(p, sample) ==
  IF sample.cpu = <<>> THEN [p EXCEPT !.res = "No cpu for sample"]
  ELSE ReadGroupsLoop(p, sample, sample.read_groups)

UpdateCounters(p, sample) ==
  IF sample.read_groups # <<>> THEN UpdateCountersInReadGroups(p, sample)
  ELSE IF sample.period = <<>> /\ p.session.attrs[sample.attr].sample_period = <<>>
  THEN [p EXCEPT !.res = "No period for sample"]
  ELSE
    LET period == IF sample.period # <<>> THEN sample.period[1]
                  ELSE p.session.attrs[sample.attr].sample_period[1] IN
    IF sample.cpu = <<>> THEN [p EXCEPT !.res = "No cpu for sample"]
    ELSE [p EXCEPT !.counters =
            Append(@, [attr |-> sample.attr, cpu |-> sample.cpu[1],
                       op |-> "AddDelta", ts |-> sample.trace_ts,
                       value |-> period]),
                   !.res = "OK"]

\* The three checks InternSample makes first, and a variant that makes
\* only the first: "" when the sample passes.
SampleGateTimeOnly(sample) ==
  IF sample.time = <<>>
  THEN "Can not parse samples with no PERF_SAMPLE_TIME field"
  ELSE ""

SampleGate(sample) ==
  IF sample.time = <<>>
  THEN "Can not parse samples with no PERF_SAMPLE_TIME field"
  ELSE IF sample.pid_tid = <<>>
  THEN "Can not parse samples with no PERF_SAMPLE_TID field"
  ELSE IF sample.cpu = <<>>
  THEN "Can not parse samples with no PERF_SAMPLE_CPU field"
  ELSE ""

\* The callchain InternSample interns: the sample's, or the one frame made
\* of its ip.
EffectiveCallchain(sample) ==
  IF sample.callchain = <<>> /\ sample.ip # <<>>
  THEN <<[cpu_mode |-> sample.cpu_mode, ip |-> sample.ip[1]]>>
  ELSE sample.callchain

InternSample(p, sample) ==
  IF SampleGate(sample) # "" THEN [p EXCEPT !.res = SampleGate(sample)]
  ELSE
    LET tid == IF sample.pid_tid = <<>> THEN 0 ELSE sample.pid_tid[1].tid
        pid == IF sample.pid_tid = <<>> THEN 0 ELSE sample.pid_tid[1].pid
        threads == UpdateThread(p.threads, tid, pid)
        utid == UtidOf(threads, tid, pid)
        upid == threads[utid].pid
        p1 == InternCallchain([p EXCEPT !.threads = threads], upid,
                              EffectiveCallchain(sample)) IN
    IF p1.fatal THEN p1
    ELSE UpdateCounters(
           [p1 EXCEPT !.perf_sample =
              Append(@, [ts |-> sample.trace_ts, utid |-> utid,
                         cpu |-> sample.cpu, cpu_mode |-> sample.cpu_mode,
                         callsite_id |-> p1.callsite,
                         perf_session_id |-> p.session.id])],
           sample)

ParseSample(p, ts, record) ==
  LET parsed == SampleParse(ts, record) IN
  IF parsed = <<>> THEN [p EXCEPT !.res = "Failed to parse PERF_RECORD_SAMPLE"]
  ELSE
    InternSample(p,
      IF parsed[1].period = <<>> /\ record.attr # 0
      THEN [parsed[1] EXCEPT !.period = p.session.attrs[record.attr].sample_period]
      ELSE parsed[1])

\* The two process tracker calls of ParseComm, as recorded in p.calls.
UpdateThreadCall(comm) ==
  [fn |-> "UpdateThread", tid |-> comm.tid, pid |-> comm.pid]

UpdateThreadNameCall(comm) ==
  [fn |-> "UpdateThreadName", tid |-> comm.tid, name |-> comm.comm,
   priority |-> "kFtrace"]

\* ParseComm naming the thread before it updates it.
ParseCommNameFirst(p, record) ==
  IF record.decoded = <<>> THEN [p EXCEPT !.res = "Failed to parse PERF_RECORD_COMM"]
  ELSE
    LET comm == record.decoded[1] IN
    [p EXCEPT !.threads = UpdateThread(@, comm.tid, comm.pid),
              !.names = Append(@, [tid |-> comm.tid, name |-> comm.comm,
                                   priority |-> "kFtrace"]),
              !.calls = <<UpdateThreadNameCall(comm), UpdateThreadCall(comm)>>,
              !.res = "OK"]

\* ParseComm(record): the record carries pid, tid and comm as read, or
\* nothing when one of the three reads fails.
ParseComm(p, record) ==
  IF record.decoded = <<>> THEN [p EXCEPT !.res = "Failed to parse PERF_RECORD_COMM"]
  ELSE
    LET comm == record.decoded[1] IN
    [p EXCEPT !.threads = UpdateThread(@, comm.tid, comm.pid),
              !.names = Append(@, [tid |-> comm.tid, name |-> comm.comm,
                                   priority |-> "kFtrace"]),
              !.calls = <<UpdateThreadCall(comm), UpdateThreadNameCall(comm)>>,
              !.res = "OK"]

\* GetUpid(fields): the thread table after the call; the upid is the pid.
GetUpid(p, fields) ==
  [p EXCEPT !.threads = UpdateThread(@, fields.tid, fields.pid)]

\* The tail ParseMmap and ParseMmap2 share: the mapping made with build_id.
CreateMapping(p, record, fields, build_id) ==
  IF IsInKernelFatal(record.cpu_mode) THEN [p EXCEPT !.fatal = TRUE]
  ELSE IF IsInKernel(record.cpu_mode)
  THEN [CreateKernelMemoryMapping(p,
          BuildCreateMappingParams(fields, fields.filename, build_id))
        EXCEPT !.res = "OK"]
  ELSE [CreateUserMemoryMapping(GetUpid(p, fields), fields.pid,
          BuildCreateMappingParams(fields, fields.filename, build_id))
        EXCEPT !.res = "OK"]

\* The call of LookupBuildId, as recorded in p.calls.
LookupBuildIdCall(fields) ==
  [fn |-> "LookupBuildId", pid |-> fields.pid, filename |-> fields.filename]

ParseMmap(p, record) ==
  IF record.decoded = <<>> THEN [p EXCEPT !.res = "Failed to parse MMAP record"]
  ELSE
    LET mmap == record.decoded[1] IN
    CreateMapping([p EXCEPT !.calls = <<LookupBuildIdCall(mmap)>>], record, mmap,
                  LookupBuildId(p.session, mmap.pid, mmap.filename))

\* The build id ParseMmap2 passes on, and a variant that asks the session
\* first.
Mmap2BuildIdSessionFirst(session, mmap2) ==
  IF LookupBuildId(session, mmap2.pid, mmap2.filename) # <<>>
  THEN [build_id |-> LookupBuildId(session, mmap2.pid, mmap2.filename),
        calls |-> <<LookupBuildIdCall(mmap2)>>]
  ELSE [build_id |-> mmap2.build_id, calls |-> <<LookupBuildIdCall(mmap2)>>]

Mmap2BuildId(session, mmap2) ==
  IF mmap2.build_id # <<>> THEN [build_id |-> mmap2.build_id, calls |-> <<>>]
  ELSE [build_id |-> LookupBuildId(session, mmap2.pid, mmap2.filename),
        calls |-> <<LookupBuildIdCall(mmap2)>>]

ParseMmap2(p, record) ==
  IF record.decoded = <<>> THEN [p EXCEPT !.res = "Failed to parse MMAP2 record"]
  ELSE
    LET mmap2 == record.decoded[1] IN
    CreateMapping([p EXCEPT !.calls = Mmap2BuildId(p.session, mmap2).calls],
                  record, mmap2, Mmap2BuildId(p.session, mmap2).build_id)

\* RecordParser::ParseRecord(ts, record): the switch on the record type.
ParserParseRecord(p, ts, record) ==
  LET fn == RecordDispatch(record.type) IN
  CASE fn = "ParseComm" -> ParseComm(p, record)
    [] fn = "ParseSample" -> ParseSample(p, ts, record)
    [] fn = "ParseMmap" -> ParseMmap(p, record)
    [] fn = "ParseMmap2" -> ParseMmap2(p, record)
    [] fn = kFatal -> [p EXCEPT !.fatal = TRUE]
    [] OTHER ->
         [p EXCEPT !.stats.perf_unknown_record_type = Append(@, record.type),
                   !.res = fn]

\* ParsePerfRecord counting failed samples only.
ParsePerfRecordSamplesOnly(p, ts, record) ==
  LET p1 == ParserParseRecord(
              [p EXCEPT !.calls = <<>>, !.callsite = <<>>, !.res = "OK",
                        !.last = <<record>>, !.parsed = @ + 1],
              ts, record) IN
  IF p1.fatal \/ p1.res = "OK" \/ record.type # "SAMPLE" THEN p1
  ELSE [p1 EXCEPT !.stats.perf_samples_skipped = @ + 1]

\* RecordParser::ParsePerfRecord(ts, record).
ParsePerfRecord(p, ts, record) ==
  LET p1 == ParserParseRecord(
              [p EXCEPT !.calls = <<>>, !.callsite = <<>>, !.res = "OK",
                        !.last = <<record>>, !.parsed = @ + 1],
              ts, record) IN
  IF p1.fatal \/ p1.res = "OK" THEN p1
  ELSE IF record.type = "SAMPLE"
  THEN [p1 EXCEPT !.stats.perf_samples_skipped = @ + 1]
  ELSE [p1 EXCEPT !.stats.perf_record_skipped = @ + 1]

(***************************************************************************)
(* The records the sorter hands to the parser, as decoded.                 *)
(***************************************************************************)
MaxFrames == 2
MaxParsed == 2

KernelFrame == [cpu_mode |-> "MODE_KERNEL", ip |-> 10]
UserFrame == [cpu_mode |-> "MODE_USER", ip |-> 11]

RECURSIVE ChainsOf(_)
ChainsOf(n) ==
  IF n = 0 THEN {<<>>}
  ELSE ChainsOf(n - 1) \cup
       {Append(c, f) : c \in {d \in ChainsOf(n - 1) : Len(d) = n - 1},
                       f \in {KernelFrame, UserFrame}}

\* Callchains of up to MaxFrames kernel and user frames, and one frame of
\* each other mode.
Callchains ==
  ChainsOf(MaxFrames) \cup
  {<<[cpu_mode |-> m, ip |-> 10]>> :
     m \in {"MODE_GUEST_KERNEL", "MODE_HYPERVISOR", "MODE_GUEST_USER",
            "MODE_UNKNOWN"}}

\* A sample with every field the parser needs, an empty callchain, no ip.
FullSample ==
  [time |-> <<1>>, pid_tid |-> <<[pid |-> 1, tid |-> 2]>>, cpu |-> <<0>>,
   ip |-> <<>>, callchain |-> <<>>, period |-> <<3>>, read_groups |-> <<>>]

SampleRecord(mode, attr, sample) ==
  [type |-> "SAMPLE", cpu_mode |-> mode, attr |-> attr, decoded |-> <<sample>>]

Entry(id, value) == [event_id |-> id, value |-> value]

SampleRecords ==
  {SampleRecord("MODE_USER", 1, [FullSample EXCEPT !.callchain = c]) :
     c \in Callchains}
  \cup {SampleRecord(m, 1, [FullSample EXCEPT !.ip = <<10>>]) :
          m \in {"MODE_KERNEL", "MODE_USER", "MODE_UNKNOWN"}}
  \cup {SampleRecord("MODE_USER", 1,
                     [FullSample EXCEPT !.ip = <<10>>, !.callchain = <<UserFrame>>])}
  \cup {SampleRecord("MODE_KERNEL", 1,
                     [s EXCEPT !.ip = <<10>>, !.callchain = <<KernelFrame>>]) :
          s \in {[FullSample EXCEPT !.time = <<>>],
                 [FullSample EXCEPT !.pid_tid = <<>>],
                 [FullSample EXCEPT !.cpu = <<>>]}}
  \cup {SampleRecord("MODE_USER", a, [FullSample EXCEPT !.period = <<>>]) :
          a \in {1, 2}}
  \cup {SampleRecord("MODE_USER", 2, FullSample)}
  \cup {SampleRecord("MODE_USER", 2,
                     [FullSample EXCEPT !.period = <<>>, !.read_groups = g]) :
          g \in {<<Entry(1, 4)>>, <<Entry(1, 4), Entry(2, 6)>>, <<Entry(9, 5)>>,
                 <<Entry(9, 5), Entry(1, 4)>>, <<Entry(1, 4), Entry(9, 5)>>}}
  \cup {[type |-> "SAMPLE", cpu_mode |-> "MODE_USER", attr |-> 1,
         decoded |-> <<>>]}

MmapFields(filename, build_id) ==
  [pid |-> 1, tid |-> 2, addr |-> 8, len |-> 4, pgoff |-> 0,
   filename |-> filename, build_id |-> build_id]

MmapRecords ==
  {[type |-> "MMAP", cpu_mode |-> m, attr |-> 0,
    decoded |-> <<MmapFields(f, <<>>)>>] :
     m \in {"MODE_KERNEL", "MODE_USER"}, f \in {"a", "b"}}
  \cup {[type |-> "MMAP2", cpu_mode |-> "MODE_USER", attr |-> 0,
         decoded |-> <<MmapFields(f, b)>>] :
          f \in {"a", "b"}, b \in {<<>>, <<"embedded">>}}
  \cup {[type |-> "MMAP2", cpu_mode |-> "MODE_KERNEL", attr |-> 0,
         decoded |-> <<MmapFields("a", <<"embedded">>)>>]}
  \cup {[type |-> t, cpu_mode |-> "MODE_USER", attr |-> 0, decoded |-> <<>>] :
          t \in {"MMAP", "MMAP2"}}
  \cup {[type |-> "MMAP", cpu_mode |-> "MODE_UNKNOWN", attr |-> 0,
         decoded |-> <<MmapFields("a", <<>>)>>]}
  \cup {[type |-> "MMAP", cpu_mode |-> "MODE_GUEST_KERNEL", attr |-> 0,
         decoded |-> <<[MmapFields("b", <<>>) EXCEPT
                          !.addr = 16, !.len = 2, !.pgoff = 5]>>],
        [type |-> "MMAP2", cpu_mode |-> "MODE_GUEST_USER", attr |-> 0,
         decoded |-> <<[MmapFields("b", <<>>) EXCEPT
                          !.pid = 3, !.tid = 4, !.addr = 16, !.len = 2,
                          !.pgoff = 5]>>]}

OtherRecords ==
  {[type |-> "COMM", cpu_mode |-> "MODE_USER", attr |-> 0,
    decoded |-> <<[pid |-> 1, tid |-> 2, comm |-> "sh"]>>],
   [type |-> "COMM", cpu_mode |-> "MODE_USER", attr |-> 0,
    decoded |-> <<[pid |-> 3, tid |-> 4, comm |-> ""]>>],
   [type |-> "COMM", cpu_mode |-> "MODE_UNKNOWN", attr |-> 0,
    decoded |-> <<[pid |-> 1, tid |-> 2, comm |-> "sh"]>>],
   [type |-> "COMM", cpu_mode |-> "MODE_USER", attr |-> 0, decoded |-> <<>>],
   [type |-> "AUX", cpu_mode |-> "MODE_USER", attr |-> 0, decoded |-> <<>>],
   [type |-> "EXIT", cpu_mode |-> "MODE_USER", attr |-> 0, decoded |-> <<>>],
   [type |-> "FORK", cpu_mode |-> "MODE_USER", attr |-> 0, decoded |-> <<>>]}

\* The session the tokenizer built: attr 1 with sample_period 5 and event
\* id 1, attr 2 without a sample_period and with event id 2; a build id for
\* (1, "a").
ParserSession ==
  [id |-> 1,
   attrs |-> <<[sample_period |-> <<5>>, ids |-> {1}],
               [sample_period |-> <<>>, ids |-> {2}]>>,
   build_ids |-> {[pid |-> 1, filename |-> "a", build_id |-> "session"]}]

\* The parser as constructed, its collaborators empty.
NewParser ==
  [threads |-> <<>>, names |-> <<>>, kernel |-> <<>>, user |-> <<>>,
   frames |-> <<>>, callsites |-> <<>>, perf_sample |-> <<>>, counters |-> <<>>,
   stats |-> [perf_samples_skipped |-> 0, perf_record_skipped |-> 0,
              perf_dummy_mapping_used |-> 0, perf_unknown_record_type |-> <<>>],
   session |-> ParserSession, calls |-> <<>>, callsite |-> <<>>, res |-> "OK",
   fatal |-> FALSE, last |-> <<>>, parsed |-> 0]

\* The same after the mappings of an earlier import: a kernel mapping and a
\* mapping of process 1, both over [8, 12).
MappedParser ==
  [NewParser EXCEPT
     !.threads = <<[tid |-> 2, pid |-> 1]>>,
     !.kernel = <<BuildCreateMappingParams(MmapFields("k", <<>>), "k", <<>>)>>,
     !.user = <<[upid |-> 1,
                 params |-> BuildCreateMappingParams(MmapFields("a", <<>>), "a",
                                                     <<>>)]>>]

(***************************************************************************)
(* GuessTraceType.  A byte is a number 0 .. 255, data a sequence of bytes, *)
(* of which the function may read the first size.                          *)
(***************************************************************************)
kGuessTraceMaxLookahead == 64

kFuchsiaMagic == <<16, 0, 4, 70, 120, 84, 22, 0>>
kPerfMagicBytes == <<80, 69, 82, 70, 73, 76, 69, 50>>
kZipMagic == <<80, 75, 3, 4>>
kGzipMagic == <<31, 139>>

\* The bytes of the magic strings of the tokenizer's files.
MagicBytes(magic) ==
  CASE magic = kPerfMagic -> kPerfMagicBytes
    [] magic = "2ELIFREP" -> Reverse(kPerfMagicBytes)
    [] magic = "<<78, 79, 84, 80, 69, 82, 70, 33>>!" -> <<78, 79, 84, 80, 69, 82, 70, 33>>
    [] OTHER -> <<0, 0, 0, 0, 0, 0, 0, 0>>

Min(a, b) == IF a < b THEN a ELSE b

\* ::isspace in the C locale: space, \t, \n, \v, \f, \r.
isspace(c) == c = 32 \/ (9 <= c /\ c <= 13)

IsNotSpace(c) == ~isspace(c)

RemoveWhitespace(str) == SelectSeq(str, IsNotSpace)

\* MatchesMagic, and a variant that compares without looking at size.
MatchesMagicUnsized(data, size, magic) ==
  /\ Len(data) >= Len(magic)
  /\ SubSeq(data, 1, Len(magic)) = magic

MatchesMagic(data, size, magic) ==
  IF size < Len(magic) THEN FALSE
  ELSE SubSeq(data, 1, Len(magic)) = magic

\* FindLine: the bytes before the first '\n' among the first size, the
\* empty view when there is none.
FindLine(data, size) ==
  IF \E i \in 1..size : data[i] = 10
  THEN SubSeq(data, 1, (CHOOSE i \in 1..size :
                          data[i] = 10 /\ \A j \in 1..(i - 1) : data[j] # 10) - 1)
  ELSE <<>>

\* base::StartsWith, base::Contains, base::ToLower.
StartsWith(str, prefix) ==
  Len(str) >= Len(prefix) /\ SubSeq(str, 1, Len(prefix)) = prefix

Contains(haystack, needle) ==
  \E i \in 0..(Len(haystack) - Len(needle)) :
    SubSeq(haystack, i + 1, i + Len(needle)) = needle

ToLower(str) ==
  [i \in DOMAIN str |-> IF 65 <= str[i] /\ str[i] <= 90 THEN str[i] + 32 ELSE str[i]]

IsDigit(c) == 48 <= c /\ c <= 57

\* AndroidLogEvent::IsAndroidLogEvent(line): the line begins with the date
\* of a logcat line, "MM-DD ".
IsAndroidLogEvent(line) ==
  /\ Len(line) >= 6
  /\ IsDigit(line[1]) /\ IsDigit(line[2]) /\ line[3] = 45
  /\ IsDigit(line[4]) /\ IsDigit(line[5]) /\ line[6] = 32

TraceTypes ==
  {"kUnknownTraceType", "kProtoTraceType", "kJsonTraceType", "kFuchsiaTraceType",
   "kSystraceTraceType", "kGzipTraceType", "kCtraceTraceType",
   "kNinjaLogTraceType", "kZipFile", "kPerfDataTraceType",
   "kAndroidLogcatTraceType"}

\* GuessTraceType after the magic numbers: the textual heuristics.
GuessText(data, size) ==
  LET start == SubSeq(data, 1, Min(size, kGuessTraceMaxLookahead))
      start_minus_white_space == RemoveWhitespace(start)
      lower_start == ToLower(start) IN
  IF StartsWith(start_minus_white_space, <<123, 34>>) THEN "kJsonTraceType"
  ELSE IF StartsWith(start_minus_white_space, <<91, 123, 34>>) THEN "kJsonTraceType"
  ELSE IF Contains(start, <<35, 32, 116, 114, 97, 99, 101, 114>>) THEN "kSystraceTraceType"
  ELSE IF StartsWith(lower_start, <<60, 33, 100, 111, 99, 116, 121, 112, 101, 32, 104, 116, 109, 108, 62>>) \/ StartsWith(lower_start, <<60, 104, 116, 109, 108, 62>>)
  THEN "kSystraceTraceType"
  ELSE IF Contains(start, <<84, 82, 65, 67, 69, 58, 10, 120, 156>>) THEN "kCtraceTraceType"
  ELSE IF Contains(start, <<84, 82, 65, 67, 69, 58, 10>>) THEN "kSystraceTraceType"
  ELSE IF StartsWith(start, <<35, 32, 110, 105, 110, 106, 97, 32, 108, 111, 103>>) THEN "kNinjaLogTraceType"
  ELSE IF IsAndroidLogEvent(FindLine(data, size)) THEN "kAndroidLogcatTraceType"
  ELSE IF StartsWith(start, <<32>>) THEN "kSystraceTraceType"
  ELSE IF StartsWith(start, <<10>>) THEN "kProtoTraceType"
  ELSE "kUnknownTraceType"

GuessTraceType(data, size) ==
  IF size = 0 THEN "kUnknownTraceType"
  ELSE IF MatchesMagic(data, size, kFuchsiaMagic) THEN "kFuchsiaTraceType"
  ELSE IF MatchesMagic(data, size, kPerfMagicBytes) THEN "kPerfDataTraceType"
  ELSE IF MatchesMagic(data, size, kZipMagic) THEN "kZipFile"
  ELSE IF MatchesMagic(data, size, kGzipMagic) THEN "kGzipTraceType"
  ELSE GuessText(data, size)

(***************************************************************************)
(* The inputs of GuessTraceType: the beginnings of the formats it knows,   *)
(* of the tokenizer's files and of some others, each followed by up to     *)
(* MaxTail more bytes.                                                     *)
(***************************************************************************)
MaxTail == 1

RECURSIVE Pad(_)
Pad(n) == IF n = 0 THEN <<>> ELSE <<120>> \o Pad(n - 1)

SniffHeads ==
  {MagicBytes(f.header.magic) : f \in Files}
  \cup {kFuchsiaMagic, kZipMagic, kGzipMagic, SubSeq(kPerfMagicBytes, 1, 7),
        <<123, 34>>, <<32, 10>> \o <<91, 123, 34>>, <<35, 32, 116, 114, 97, 99, 101, 114>>, <<60, 72, 84, 77, 76, 62>>, <<88>> \o <<84, 82, 65, 67, 69, 58, 10, 120, 156>>,
        <<84, 82, 65, 67, 69, 58, 10>>, <<35, 32, 110, 105, 110, 106, 97, 32, 108, 111, 103>>, <<48, 49, 45, 48, 50, 32, 48, 10>>, <<32>>, <<10>>, <<120>>,
        Pad(kGuessTraceMaxLookahead - 7) \o <<84, 82, 65, 67, 69, 58, 10>>,
        Pad(kGuessTraceMaxLookahead - 6) \o <<84, 82, 65, 67, 69, 58, 10>>,
        kPerfMagicBytes \o <<10>> \o <<48, 49, 45, 48, 50, 32, 48, 10>>}

RECURSIVE SniffTails(_)
SniffTails(n) ==
  IF n = 0 THEN {<<>>}
  ELSE SniffTails(n - 1) \cup
       {Append(t, c) : t \in {u \in SniffTails(n - 1) : Len(u) = n - 1},
                       c \in {0, 10, 123}}

SniffData == {h \o t : h \in SniffHeads, t \in SniffTails(MaxTail)}

\* The sizes a caller passes with data: nothing, a little, all but the
\* last byte, all.
SniffSizes(data) == {0, 1, 2, 4, 7, 8, Len(data) - 1, Len(data)} \cap 0..Len(data)

NotSniffed == [data |-> <<>>, size |-> 0, guess |-> "none"]

(***************************************************************************)
(* The state machine: the driver hands the file to Parse chunk by chunk.   *)
(***************************************************************************)
\* The tokenizer's members and collaborators as one record.
Tok ==
  [parsing_state |-> parsing_state_, buffer |-> buffer_, header |-> header_,
   feature_ids |-> feature_ids_,
   feature_headers_section |-> feature_headers_section_,
   feature_sections |-> feature_sections_, session |-> perf_session_,
   latest_timestamp |-> latest_timestamp_, sorter |-> sorter, stats |-> stats,
   clock |-> clock, features |-> features, aborted |-> aborted,
   probe |-> probe, log |-> log,
   res |-> kSuccess, view |-> FALSE, popped |-> FALSE, pushed_ok |-> FALSE,
   trace_ts |-> <<>>, record |-> NoRecord]

\* The tokenizer as constructed, beside a sorter that has seen sorter_init.
NewTok ==
  [parsing_state |-> "kParseHeader", buffer |-> [start |-> 0, end |-> 0],
   header |-> ZeroHeader, feature_ids |-> {},
   feature_headers_section |-> Sec(0, 0), feature_sections |-> <<>>,
   session |-> NullSession, latest_timestamp |-> 0,
   sorter |-> [max |-> env.sorter_init, pushed |-> <<>>],
   stats |-> [perf_record_skipped |-> 0, perf_features_skipped |-> <<>>],
   clock |-> [trace_time_clock |-> "NONE", sets |-> 0], features |-> <<>>,
   aborted |-> FALSE,
   probe |-> [slice_low |-> FALSE, pop_low |-> FALSE],
   log |-> <<>>,
   res |-> kSuccess, view |-> FALSE, popped |-> FALSE, pushed_ok |-> FALSE,
   trace_ts |-> <<>>, record |-> NoRecord]

Init ==
  /\ file \in Files
  /\ env \in Envs
  /\ delivered = 0
  /\ parsing_state_ = NewTok.parsing_state
  /\ buffer_ = NewTok.buffer
  /\ header_ = NewTok.header
  /\ feature_ids_ = NewTok.feature_ids
  /\ feature_headers_section_ = NewTok.feature_headers_section
  /\ feature_sections_ = NewTok.feature_sections
  /\ perf_session_ = NewTok.session
  /\ latest_timestamp_ = NewTok.latest_timestamp
  /\ sorter = NewTok.sorter
  /\ stats = NewTok.stats
  /\ clock = NewTok.clock
  /\ features = NewTok.features
  /\ status = "OK"
  /\ aborted = FALSE
  /\ probe = NewTok.probe
  /\ log = <<>>
  /\ parser = NewParser
  /\ sniffer = NotSniffed

\* The driver calls Parse with the next n bytes of the file.
Deliver(n) ==
  /\ ~aborted
  /\ n >= 1
  /\ delivered + n <= file.len
  /\ \E t \in {Parse(Tok, n)} :
       /\ delivered' = delivered + n
       /\ parsing_state_' = t.parsing_state
       /\ buffer_' = t.buffer
       /\ header_' = t.header
       /\ feature_ids_' = t.feature_ids
       /\ feature_headers_section_' = t.feature_headers_section
       /\ feature_sections_' = t.feature_sections
       /\ perf_session_' = t.session
       /\ latest_timestamp_' = t.latest_timestamp
       /\ sorter' = t.sorter
       /\ stats' = t.stats
       /\ clock' = t.clock
       /\ features' = t.features
       /\ status' = StatusOf(t.res)
       /\ aborted' = t.aborted
       /\ probe' = t.probe
       /\ log' = t.log
  /\ UNCHANGED <<file, env, parser, sniffer>>

ParseChunk == \E n \in 1..MaxChunk : Deliver(n)

ParseRest == Deliver(file.len - delivered)

Next == ParseChunk \/ ParseRest

Spec == Init /\ [][Next]_vars

\* The file as built from its own attrs, records and flags, in one of the
\* two orders of its feature sections.
LayoutOfFile(ascending) ==
  Layout([i \in DOMAIN file.entries |->
            [attr |-> file.entries[i].attr, idvals |-> file.entries[i].idvals]],
         file.records, file.header.flags, file.header.flags1, ascending)

\* The driver with a well-formed file, which it delivers to the end: the
\* records tile the data section, each has a valid size and an attr of the
\* session, and the feature index and the sections follow the data.
FileSession == [id |-> 1, meta |-> {}, attrs |->
  [i \in 1..NumAttrs(file.header) |->
     [idx |-> i, sample_type |-> AttrsEntry(i).attr.sample_type,
      sample_id_all |-> AttrsEntry(i).attr.sample_id_all, ids |-> ReadIds(i)]]]

WellFormedFile ==
  /\ \E ascending \in BOOLEAN : file = LayoutOfFile(ascending)
  /\ \A k \in DOMAIN file.records :
       /\ file.records[k].size >= RecordHeaderSize
       /\ FindAttrForRecord(FileSession,
                            [type |-> file.records[k].type,
                             size |-> file.records[k].size],
                            PayloadOf(file.records[k])) # <<>>

\* Well-formed files for the driver that delivers to the end: without
\* records and features, with one and with two records, with a record and
\* two feature sections, with four feature sections in descending id order.
LiveFiles ==
  {Layout(One(AttrS1), <<>>, 0, <<0, 0, 0>>, TRUE),
   S1File,
   Layout(Two, <<Rec("SAMPLE", <<42, 1, 20>>),
                 Rec("COMM", <<42, 7, 42, Int64Max + 1, 10>>)>>,
          0, <<0, 0, 0>>, TRUE),
   Layout(One(AttrS1), <<Rec("COMM", <<42, 7, 42, 1>>)>>, 2052, <<0, 0, 0>>, TRUE),
   Layout(One(AttrS1), <<>>, 12, <<0, 66, 0>>, FALSE)}

InitLive == Init /\ file \in LiveFiles

\* The driver's part of a Parse call: it hands over the next chunk, of at
\* least one byte, while the file has bytes left and the tokenizer has not
\* aborted. Parse is total, so a chunk can be delivered exactly when this
\* step is enabled, and a step of Next advances delivered exactly when it
\* is a Parse call.
DriverStep ==
  /\ ~aborted
  /\ \E n \in 1..MaxChunk :
       /\ delivered + n <= file.len
       /\ delivered' = delivered + n

\* The file is fully delivered: the driver does not stop while bytes are left.
SpecLive == InitLive /\ [][Next]_vars /\ WF_delivered(DriverStep)

(***************************************************************************)
(* The parser's state machine: the sorter hands it one record at a time.   *)
(***************************************************************************)
TokenizerVars ==
  <<file, env, delivered, parsing_state_, buffer_, header_, feature_ids_,
    feature_headers_section_, feature_sections_, perf_session_,
    latest_timestamp_, sorter, stats, clock, features, status, aborted,
    probe, log>>

InitParser ==
  /\ file = S1File
  /\ env = [clock_fails |-> {}, sorter_init |-> 0]
  /\ delivered = 0
  /\ parsing_state_ = NewTok.parsing_state
  /\ buffer_ = NewTok.buffer
  /\ header_ = NewTok.header
  /\ feature_ids_ = NewTok.feature_ids
  /\ feature_headers_section_ = NewTok.feature_headers_section
  /\ feature_sections_ = NewTok.feature_sections
  /\ perf_session_ = NewTok.session
  /\ latest_timestamp_ = NewTok.latest_timestamp
  /\ sorter = NewTok.sorter
  /\ stats = NewTok.stats
  /\ clock = NewTok.clock
  /\ features = NewTok.features
  /\ status = "OK"
  /\ aborted = FALSE
  /\ probe = NewTok.probe
  /\ log = <<>>
  /\ parser \in {NewParser, MappedParser}
  /\ sniffer = NotSniffed

\* The sorter calls ParsePerfRecord with the next record, at trace time 7.
Handle(record) ==
  /\ ~parser.fatal
  /\ parser.parsed < MaxParsed
  /\ parser' = ParsePerfRecord(parser, 7, record)
  /\ UNCHANGED <<TokenizerVars, sniffer>>

HandleSample == \E record \in SampleRecords : Handle(record)

HandleMmap == \E record \in MmapRecords : Handle(record)

HandleOther == \E record \in OtherRecords : Handle(record)

NextParser == HandleSample \/ HandleMmap \/ HandleOther

SpecParser == InitParser /\ [][NextParser]_vars

(***************************************************************************)
(* The sniffer's state machine: the reader asks for the type of some data, *)
(* any number of times.                                                    *)
(***************************************************************************)
InitSniffer ==
  /\ file = S1File
  /\ env = [clock_fails |-> {}, sorter_init |-> 0]
  /\ delivered = 0
  /\ parsing_state_ = NewTok.parsing_state
  /\ buffer_ = NewTok.buffer
  /\ header_ = NewTok.header
  /\ feature_ids_ = NewTok.feature_ids
  /\ feature_headers_section_ = NewTok.feature_headers_section
  /\ feature_sections_ = NewTok.feature_sections
  /\ perf_session_ = NewTok.session
  /\ latest_timestamp_ = NewTok.latest_timestamp
  /\ sorter = NewTok.sorter
  /\ stats = NewTok.stats
  /\ clock = NewTok.clock
  /\ features = NewTok.features
  /\ status = "OK"
  /\ aborted = FALSE
  /\ probe = NewTok.probe
  /\ log = <<>>
  /\ parser = NewParser
  /\ sniffer = NotSniffed

\* GuessTraceType(data, size) is called.
Guess(data, size) ==
  /\ sniffer' = [data |-> data, size |-> size,
                 guess |-> GuessTraceType(data, size)]
  /\ UNCHANGED <<TokenizerVars, parser>>

NextSniffer == \E data \in SniffData : \E size \in SniffSizes(data) : Guess(data, size)

SpecSniffer == InitSniffer /\ [][NextSniffer]_vars

(***************************************************************************)
(* Properties.                                                             *)
(***************************************************************************)
Pushed == sorter.pushed

\* What one Parse call with the first `delivered` bytes as a single chunk
\* leaves in a new tokenizer.
SingleChunk == Parse(NewTok, delivered)

\* C1: resumability: however the bytes delivered so far were cut into
\* chunks, the (trace_ts, record) pairs pushed to the sorter, in order, are
\* those pushed when the same bytes are fed as one chunk.
C1_Resumability == Pushed = SingleChunk.sorter.pushed

\* C1 witness: the whole file is in, two records were pushed, and the last
\* Parse call started in the middle of the data section.
C1_Witness ==
  /\ delivered = file.len
  /\ Len(Pushed) >= 2
  /\ log # <<>> /\ log[1].fn = "kParseRecords"

\* C2: start_offset() never decreases, and every PopFrontUntil and
\* PopFrontBytes of the tokenizer targets an offset at or past it.
C2_BufferMonotone ==
  [][buffer_'.start >= buffer_.start /\ ~probe'.pop_low]_vars

\* C3: no SliceOff of the tokenizer starts before start_offset().
C3_NoSliceBelowStart == ~probe.slice_low

BadMagic == file.header.magic # kPerfMagic

\* C4: with the first 8 bytes not "PERFILE2", Parse returns "Invalid magic
\* string" once the header's bytes are buffered (and OK before); the state
\* stays ParseHeader, the buffer is not advanced, the trace-time clock is not
\* set and nothing is pushed.
C4_BadMagic ==
  BadMagic =>
    /\ status = (IF delivered >= HeaderSize THEN "Invalid magic string" ELSE "OK")
    /\ parsing_state_ = "kParseHeader"
    /\ buffer_.start = 0
    /\ clock.sets = 0 /\ clock.trace_time_clock = "NONE"
    /\ Pushed = <<>>

\* C4 witness: a file with bad magic, past its header, refused twice over.
C4_Witness ==
  /\ BadMagic
  /\ delivered > HeaderSize + 1
  /\ status = "Invalid magic string"

\* C5: with valid magic, a declared header size other than
\* sizeof(PerfFile::Header) is an error and the state stays ParseHeader; the
\* expected size moves the tokenizer to ParseAttrs with start_offset() at the
\* header size, as soon as the header's bytes are buffered.
C5_HeaderSize ==
  ~BadMagic =>
    IF file.header.size # HeaderSize
    THEN /\ parsing_state_ = "kParseHeader"
         /\ delivered >= HeaderSize => status = "Failed to perf file header size"
    ELSE /\ delivered >= HeaderSize => parsing_state_ # "kParseHeader"
         /\ \A i \in DOMAIN log :
              log[i].fn = "kParseHeader" /\ delivered >= HeaderSize =>
                /\ log[i].res = kSuccess
                /\ log[i].next = "kParseAttrs"
                /\ log[i].start = HeaderSize

\* C5 witness: the Parse call that completed the header accepted it and went
\* on into the data section.
C5_Witness ==
  /\ ~BadMagic /\ file.header.size = HeaderSize
  /\ log # <<>> /\ log[1].fn = "kParseHeader" /\ log[1].res = kSuccess
  /\ parsing_state_ = "kParseRecords"

\* C5 refusal: a header with valid magic and another size has been refused.
C5_Refused ==
  /\ ~BadMagic /\ file.header.size # HeaderSize
  /\ status = "Failed to perf file header size"


\* Whether, with d bytes delivered, the state function of the current state
\* lacks bytes of the range it reads next: the header; the attrs section or
\* the ids of an entry (no entry up to it refused); the bytes up to
\* data.offset; a record's header or payload; the feature index; the feature
\* section at the back of feature_sections_.
Waiting(d) ==
  CASE parsing_state_ = "kParseHeader" -> d < HeaderSize
    [] parsing_state_ = "kParseAttrs" ->
         \/ End(header_.attrs) > d
         \/ \E i \in 1..NumAttrs(header_) :
              /\ End(AttrsEntry(i).ids) > d
              /\ \A j \in 1..i : AttrsEntry(j).ids.size % WordSize = 0
    [] parsing_state_ = "kSeekRecords" -> header_.data.offset > d
    [] parsing_state_ = "kParseRecords" ->
         /\ buffer_.start < End(header_.data)
         /\ \/ buffer_.start + RecordHeaderSize > d
            \/ /\ RecordAt(buffer_.start).size >= RecordHeaderSize
               /\ buffer_.start + RecordAt(buffer_.start).size > d
    [] parsing_state_ = "kParseFeatureSections" ->
         /\ buffer_.start = End(header_.data)
         /\ End(feature_headers_section_) > d
    [] parsing_state_ = "kParseFeatures" ->
         /\ feature_sections_ # <<>>
         /\ End(feature_sections_[Len(feature_sections_)].section) > d
    [] OTHER -> FALSE

\* Every record pushed lies wholly within the bytes delivered.
NoPartialRecord ==
  \A i \in DOMAIN Pushed :
    Pushed[i].record.offset + Pushed[i].record.header.size <= delivered

\* C6: MoreDataNeeded is not an error: a Parse call whose bytes still end
\* inside the range the current state reads returns OK, leaves parsing_state_
\* as it was and pushes nothing, call after call until the bytes are there;
\* and whatever state a call ends in, short of bytes, its status is OK and no
\* record pushed is partial.
C6_MoreDataNeeded ==
  [][/\ Waiting(delivered') =>
          /\ status' = "OK"
          /\ parsing_state_' = parsing_state_
          /\ Pushed' = Pushed
     /\ Waiting(delivered)' => status' = "OK"
     /\ NoPartialRecord']_vars

\* C6 witness: a call has just returned MoreDataNeeded from ParseRecords with
\* the bytes ending inside a record's payload, after a second call in that
\* position, one record already pushed.
C6_Witness ==
  /\ parsing_state_ = "kParseRecords" /\ status = "OK"
  /\ Len(log) = 1 /\ log[1].fn = "kParseRecords" /\ log[1].res = kMoreDataNeeded
  /\ delivered > buffer_.start + RecordHeaderSize
  /\ delivered < buffer_.start + RecordAt(buffer_.start).size
  /\ Len(Pushed) = 1

\* The record at start_offset(), in ParseRecords, with its 8-byte header in
\* the buffer.
HeaderResident ==
  /\ parsing_state_ = "kParseRecords"
  /\ buffer_.start < End(header_.data)
  /\ buffer_.start + RecordHeaderSize <= delivered

NotPushedAt(off) == \A i \in DOMAIN Pushed : Pushed[i].record.offset # off

\* C7: a record whose header.size is below the 8 bytes of the record header
\* makes Parse return "Invalid record size"; it is not pushed, and its bytes
\* stay in the buffer.
C7_InvalidRecordSize ==
  /\ \A i \in DOMAIN Pushed : Pushed[i].record.header.size >= RecordHeaderSize
  /\ HeaderResident /\ RecordAt(buffer_.start).size < RecordHeaderSize =>
       status = "Invalid record size"
  /\ status = "Invalid record size" =>
       /\ HeaderResident
       /\ RecordAt(buffer_.start).size < RecordHeaderSize
       /\ buffer_.end = delivered
       /\ NotPushedAt(buffer_.start)

\* C7 witness: after one record pushed, a record of size 4 was refused.
C7_Witness ==
  /\ status = "Invalid record size"
  /\ RecordAt(buffer_.start).size = 4
  /\ Len(Pushed) = 1

\* The record at start_offset(), in ParseRecords, wholly in the buffer.
RecordResident ==
  /\ HeaderResident
  /\ RecordAt(buffer_.start).size >= RecordHeaderSize
  /\ buffer_.start + RecordAt(buffer_.start).size <= delivered

\* What the session answers for the record at start_offset().
AttrAtStart ==
  LET raw == RecordAt(buffer_.start) IN
  FindAttrForRecord(perf_session_, [type |-> raw.type, size |-> raw.size],
                    PayloadOf(raw))

\* C8: ID routing: a record pushed carries the only attr of a one-attr
\* session, else the attr whose id list holds the sample id read from the
\* record; a record for which the session finds no attr makes Parse return
\* an error and is not pushed.
C8_IdRouting ==
  /\ \A i \in DOMAIN Pushed :
       LET r == Pushed[i].record
           id == ReadEventId(perf_session_, r.header, r.payload) IN
       IF Len(perf_session_.attrs) = 1
       THEN r.attr = AttrOf(perf_session_.attrs[1])
       ELSE \E k \in DOMAIN perf_session_.attrs :
              /\ r.attr = AttrOf(perf_session_.attrs[k])
              /\ id # <<>> /\ id[1] \in Range(perf_session_.attrs[k].ids)
  /\ RecordResident /\ AttrAtStart = <<>> =>
       /\ status = "Unable to determine perf_event_attr for record"
       /\ NotPushedAt(buffer_.start)
  /\ status = "Unable to determine perf_event_attr for record" =>
       RecordResident /\ AttrAtStart = <<>> /\ NotPushedAt(buffer_.start)

\* C8 witness: in a two-attr session a record was routed to the second attr
\* by its id, and the next record, of an id no attr registered, was refused.
C8_Witness ==
  /\ Len(perf_session_.attrs) = 2
  /\ Len(Pushed) = 1 /\ Pushed[1].record.attr.idx = 2
  /\ status = "Unable to determine perf_event_attr for record"

\* C9: latest_timestamp_ never decreases, and it is at least the trace_ts of
\* every record pushed so far.
C9_TimeMonotonicity ==
  [][/\ latest_timestamp_' >= latest_timestamp_
     /\ \A i \in DOMAIN Pushed' : Pushed'[i].ts <= latest_timestamp_']_vars

\* C9 witness: the second record pushed has a lower trace_ts than the first,
\* and latest_timestamp_ kept the first.
C9_Witness ==
  /\ Len(Pushed) = 2
  /\ Pushed[2].ts < Pushed[1].ts
  /\ latest_timestamp_ = Pushed[1].ts

\* Whether ReadTime finds no perf timestamp in a record pushed.
NoPerfTime(r) == ReadTime(r).ok /\ ReadTime(r).time = <<>>

\* The times the clock tracker translated for the records of the file that
\* lie before offset off (pushed or not).
TranslatedBefore(off) ==
  UNION {LET raw == file.records[k]
             hdr == [type |-> raw.type, size |-> raw.size]
             attr == FindAttrForRecord(perf_session_, hdr, PayloadOf(raw))
             rt == IF attr = <<>> THEN [ok |-> FALSE, time |-> <<>>]
                   ELSE ReadTime([NoRecord EXCEPT !.header = hdr,
                                                  !.payload = PayloadOf(raw),
                                                  !.attr = attr[1]]) IN
         IF rt.ok /\ rt.time # <<>> THEN Range(ToTraceTime(ToInt64(rt.time[1])))
         ELSE {} :
         k \in {j \in DOMAIN file.records : RecOffset(j) < off}}

MaxOf(S) == CHOOSE x \in S : \A y \in S : y <= x

\* C10: a record without perf timestamp is pushed with
\* trace_ts = max(latest_timestamp_, sorter.max_timestamp()), that is the
\* highest of 0, what the sorter had seen and the times translated before
\* it, and so not below the trace_ts of any record pushed before it.
C10_UntimedRecords ==
  \A i \in DOMAIN Pushed :
    NoPerfTime(Pushed[i].record) =>
      /\ Pushed[i].ts =
           MaxOf({0, env.sorter_init} \cup TranslatedBefore(Pushed[i].record.offset))
      /\ \A j \in 1..(i - 1) : Pushed[j].ts <= Pushed[i].ts

\* C10 witness: a record without time was pushed, after a record with time,
\* at that record's trace_ts, above what the sorter had seen.
C10_Witness ==
  /\ Len(Pushed) = 2
  /\ ~NoPerfTime(Pushed[1].record) /\ NoPerfTime(Pushed[2].record)
  /\ Pushed[2].ts = Pushed[1].ts /\ Pushed[2].ts > env.sorter_init

\* Scenario S1 delivered whole, beside a sorter that has seen nothing.
S1Done == file = S1File /\ delivered = file.len /\ env.sorter_init = 0

\* C11 as stated: in S1 the COMM record is taken to have no time and is
\* pushed with the trace_ts synthesised from the sorter, 0.
C11_S1CommSynthesised ==
  S1Done =>
    /\ Len(Pushed) = 1
    /\ NoPerfTime(Pushed[1].record)
    /\ Pushed[1].ts = 0

\* C11 amended: in S1 the attr has TIME and sample_id_all, so ReadTime takes
\* the last 8 bytes of the COMM payload (the padded "init") as the perf
\* time; the record is pushed with the translation of that value as
\* trace_ts (and skipped when the translation fails), not with 0.
C11_S1CommDecoded ==
  S1Done =>
    LET ts == ToTraceTime(ToInt64(InitWord)) IN
    /\ time_offset_from_end(AttrOf(perf_session_.attrs[1])) = <<WordSize>>
    /\ IF ts = <<>> THEN Pushed = <<>> /\ stats.perf_record_skipped = 1
       ELSE /\ Len(Pushed) = 1
            /\ Pushed[1].record.header.type = "COMM"
            /\ Pushed[1].record.header.size = 3 * WordSize
            /\ ReadTime(Pushed[1].record) = [ok |-> TRUE, time |-> <<InitWord>>]
            /\ Pushed[1].ts = ts[1] /\ Pushed[1].ts # 0
            /\ latest_timestamp_ = ts[1]

\* C11 witness: S1 delivered whole, its COMM record pushed.
C11_Witness == S1Done /\ Len(Pushed) = 1 /\ Pushed[1].record.payload = <<42, InitWord>>

\* The positions, from i on, of the bits set in a word whose bit 0 stands
\* at position i.
RECURSIVE BitsFrom(_, _)
BitsFrom(w, i) ==
  IF w = 0 THEN {}
  ELSE (IF w % 2 = 1 THEN {i} ELSE {}) \cup BitsFrom(w \div 2, i + 1)

\* The positions of the bits set in a 64-bit word.
BitsSet(w) == BitsFrom(w, 0)

\* The positions of the bits set in the 256-bit bitmap flags:flags1.
BitmapIds(h) ==
  BitsSet(h.flags)
  \cup UNION {{FlagBits * k + i : i \in BitsSet(h.flags1[k])} : k \in 1..3}

\* C12: feature bitmap: once ParseHeader has accepted the header,
\* feature_ids_ is the set of positions of the bits set in flags:flags1 (ids
\* within 0..255) and feature_headers_section_ is (data.end, 16 bytes per
\* id); and when the tokenizer is Done, ParseFeature was called once for
\* each of these ids and for no other.
C12_FeatureBitmap ==
  /\ parsing_state_ # "kParseHeader" =>
       /\ feature_ids_ = BitmapIds(header_)
       /\ feature_ids_ \subseteq 0..255
       /\ feature_headers_section_ =
            Sec(End(header_.data), Cardinality(BitmapIds(header_)) * SectionSize)
  /\ parsing_state_ = "kDone" =>
       /\ Range(features) = BitmapIds(header_)
       /\ Len(features) = Cardinality(BitmapIds(header_))

\* C12 witness: a file with bits set in flags and in two words of flags1 was
\* parsed to the end, its three feature sections dispatched.
C12_Witness ==
  /\ parsing_state_ = "kDone"
  /\ BitsSet(header_.flags1[1]) # {} /\ BitsSet(header_.flags1[3]) # {}
  /\ Len(features) = 3

\* Record k of the file as ParseRecord fills it in.
FileRecord(k) ==
  LET raw == file.records[k]
      hdr == [type |-> raw.type, size |-> raw.size]
      attr == FindAttrForRecord(perf_session_, hdr, PayloadOf(raw)) IN
  [NoRecord EXCEPT !.header = hdr, !.offset = RecOffset(k),
                   !.payload = PayloadOf(raw), !.session = perf_session_.id,
                   !.attr = IF attr = <<>> THEN NullAttr ELSE attr[1]]

\* Whether the timestamp step of PushRecord succeeds for a record: its time
\* can be read and, when it has one, the clock tracker translates it.
TimeStepOk(r) ==
  /\ ReadTime(r).ok
  /\ ReadTime(r).time # <<>> => ToTraceTime(ToInt64(ReadTime(r).time[1])) # <<>>

\* Whether ParseRecords has taken record k out of the buffer.
Consumed(k) ==
  /\ parsing_state_ \in {"kParseRecords", "kParseFeatureSections",
                         "kParseFeatures", "kDone"}
  /\ RecOffset(k) < buffer_.start

AuxTypes == {"AUX", "AUXTRACE", "AUXTRACE_INFO"}

\* C13: AUX drop: no record of type AUX, AUXTRACE or AUXTRACE_INFO is pushed
\* to the sorter, so no record pushed takes the fatal branch of
\* RecordParser::ParseRecord; and every record of another type that the
\* tokenizer consumed and whose timestamp step succeeded is pushed.
C13_AuxDrop ==
  /\ \A i \in DOMAIN Pushed :
       /\ Pushed[i].record.header.type \notin AuxTypes
       /\ RecordDispatch(Pushed[i].record.header.type) # kFatal
  /\ \A k \in DOMAIN file.records :
       Consumed(k) /\ file.records[k].type \notin AuxTypes
                   /\ TimeStepOk(FileRecord(k)) =>
         \E i \in DOMAIN Pushed : Pushed[i].record = FileRecord(k)

\* C13 witness: a record of an AUX type was consumed, its timestamp step
\* succeeding, and is not in the sorter, while the record after it is.
C13_Witness ==
  \E k \in DOMAIN file.records :
    /\ Consumed(k) /\ file.records[k].type \in AuxTypes
    /\ TimeStepOk(FileRecord(k))
    /\ NotPushedAt(RecOffset(k))
    /\ \E i \in DOMAIN Pushed : Pushed[i].record.offset > RecOffset(k)

\* The records consumed whose timestamp step failed.
SkippedRecords ==
  {k \in DOMAIN file.records : Consumed(k) /\ ~TimeStepOk(FileRecord(k))}

\* The records consumed whose timestamp step succeeded without a perf time.
UntimedRecords ==
  {k \in DOMAIN file.records :
     Consumed(k) /\ TimeStepOk(FileRecord(k)) /\ NoPerfTime(FileRecord(k))}

\* Whether record k can be tokenized once record k - 1 is out of the
\* buffer: it is wholly delivered, of a valid size, and has an attr.
Tokenizable(k) ==
  /\ RecOffset(k) + file.records[k].size <= delivered
  /\ file.records[k].size >= RecordHeaderSize
  /\ FileRecord(k).attr # NullAttr

\* C14: a record whose time cannot be read or translated is skipped, not
\* fatal: perf_record_skipped counts each such record once, none of them is
\* pushed, latest_timestamp_ holds only times translated with success, their
\* bytes have left the buffer, an error returned in ParseRecords is about
\* the record still at start_offset(), and the record after a skipped one is
\* tokenized when its bytes are there.
C14_SkipNotFatal ==
  /\ stats.perf_record_skipped = Cardinality(SkippedRecords)
  /\ latest_timestamp_ =
       MaxOf({0} \cup UNION {TranslatedBefore(RecOffset(k) + 1) :
                               k \in {j \in DOMAIN file.records : Consumed(j)}}
                 \cup (IF UntimedRecords = {} THEN {} ELSE {env.sorter_init}))
  /\ \A k \in SkippedRecords :
       /\ NotPushedAt(RecOffset(k))
       /\ buffer_.start >= RecOffset(k) + file.records[k].size
       /\ status # "OK" =>
            /\ status \in {"Invalid record size",
                           "Unable to determine perf_event_attr for record"}
            /\ \E j \in DOMAIN file.records :
                 j > k /\ ~Consumed(j) /\ RecOffset(j) = buffer_.start
       /\ k + 1 \in DOMAIN file.records /\ Tokenizable(k + 1) => Consumed(k + 1)

\* C14 witness: a record whose time the clock tracker did not translate and
\* a record whose time could not be read were skipped, and a record after
\* them was pushed.
C14_Witness ==
  /\ \E k \in SkippedRecords :
       /\ ReadTime(FileRecord(k)).ok
       /\ \E i \in DOMAIN Pushed : Pushed[i].record.offset > RecOffset(k)
  /\ status = "OK"

\* C14 second witness: the time of a skipped record could not be read.
C14_Unreadable ==
  \E k \in SkippedRecords :
    /\ ~ReadTime(FileRecord(k)).ok
    /\ \E i \in DOMAIN Pushed : Pushed[i].record.offset > RecOffset(k)

\* The error statuses Parse returns.
ErrorStatuses ==
  {"Invalid magic string", "Failed to perf file header size",
   "Invalid id section size", "Invalid record size",
   "Unable to determine perf_event_attr for record",
   "Invalid feature payload", "Unexpected data"}

\* C15: errors are terminal: after a Parse call that returned an error, every
\* later Parse call returns an error too (the same one), and pushes nothing.
C15_ErrorsTerminal ==
  [][/\ status \in ErrorStatuses => status' = status
     /\ status \in ErrorStatuses => parsing_state_' = parsing_state_
     /\ status \in ErrorStatuses => Pushed' = Pushed]_vars

\* C15 witness: a Parse call that began at a record already refused
\* returned the error again, although a valid record lies wholly delivered
\* behind the refused one; it is not pushed.
C15_Witness ==
  /\ status \in {"Invalid record size",
                 "Unable to determine perf_event_attr for record"}
  /\ Len(log) = 1 /\ log[1].res = status
  /\ \E k \in DOMAIN file.records :
       /\ RecOffset(k) > buffer_.start
       /\ Tokenizable(k) /\ TimeStepOk(FileRecord(k))
       /\ file.records[k].type \notin AuxTypes
       /\ NotPushedAt(RecOffset(k))
       /\ delivered = file.len

(***************************************************************************)
(* Properties of RecordParser, checked under SpecParser.                   *)
(***************************************************************************)
\* The record the last ParsePerfRecord was given, and the sample decoded
\* from it.
LastRecord(p) == p.last[1]

LastSample(p) == LastRecord(p).decoded[1]

\* The last call was for a sample that passed the three checks, and it
\* returned.
SampleInterned(p) ==
  /\ p.last # <<>>
  /\ ~p.fatal
  /\ LastRecord(p).type = "SAMPLE"
  /\ LastRecord(p).decoded # <<>>
  /\ LastSample(p).time # <<>>
  /\ LastSample(p).pid_tid # <<>>
  /\ LastSample(p).cpu # <<>>

\* The callchain handed to InternCallchain for the last sample.
LastCallchain(p) ==
  IF LastSample(p).callchain = <<>> /\ LastSample(p).ip # <<>>
  THEN <<[cpu_mode |-> LastRecord(p).cpu_mode, ip |-> LastSample(p).ip[1]]>>
  ELSE LastSample(p).callchain

IsCallsiteCall(c) == c.fn = "InternCallsite"

IsLookupCall(c) == c.fn # "InternCallsite"

CallsiteCalls(p) == SelectSeq(p.calls, IsCallsiteCall)

LookupCalls(p) == SelectSeq(p.calls, IsLookupCall)

\* C16 for one call of ParsePerfRecord, from p to q.
CallchainBottomUp(p, q) ==
  SampleInterned(q) =>
    LET chain == LastCallchain(q)
        N == Len(chain)
        cs == CallsiteCalls(q)
        lk == LookupCalls(q) IN
    /\ Len(cs) = N
    /\ Len(lk) = N
    /\ \A i \in 1..N :
         /\ cs[i].depth = i - 1
         /\ lk[i].ip = chain[N + 1 - i].ip
         /\ q.frames[cs[i].frame].rel_pc =
              ToRelativePc(q, q.frames[cs[i].frame].mapping, chain[N + 1 - i].ip)
         /\ cs[i].parent = IF i = 1 THEN <<>> ELSE <<cs[i - 1].id>>
         /\ q.callsites[cs[i].id] =
              [parent |-> cs[i].parent, frame |-> cs[i].frame, depth |-> i - 1]
    /\ q.callsite = IF N = 0 THEN <<>> ELSE <<cs[N].id>>
    /\ q.perf_sample[Len(q.perf_sample)].callsite_id = q.callsite
    /\ N = 0 => q.frames = p.frames /\ q.callsites = p.callsites

\* C16: Callchain bottom-up.  When a sample of N >= 1 frames is interned,
\* InternCallchain makes exactly N InternCallsite calls, for the frames from
\* the last element of the vector to the first, with depths 0, 1, ..., N-1;
\* the first has no parent, each later one the callsite interned just
\* before; the callsite returned is the one of depth N-1.  For an empty
\* callchain no frame and no callsite is interned and none is returned.
C16_CallchainBottomUp == [][CallchainBottomUp(parser, parser')]_vars

\* A sample of two different frames was interned: its callsite has depth 1.
C16_Witness ==
  /\ SampleInterned(parser)
  /\ Len(LastCallchain(parser)) >= 2
  /\ LastCallchain(parser)[1] # LastCallchain(parser)[2]
  /\ parser.callsite # <<>>
  /\ parser.callsites[parser.callsite[1]].depth = Len(LastCallchain(parser)) - 1

\* The last call was for a sample that passed the three checks.
SamplePassed(p) ==
  /\ p.last # <<>>
  /\ LastRecord(p).type = "SAMPLE"
  /\ LastRecord(p).decoded # <<>>
  /\ LastSample(p).time # <<>>
  /\ LastSample(p).pid_tid # <<>>
  /\ LastSample(p).cpu # <<>>

KernelModes == {"MODE_KERNEL", "MODE_GUEST_KERNEL"}

\* The one lookup the routing rule asks for a frame of the last sample.
RoutedLookup(p, frame) ==
  IF frame.cpu_mode \in KernelModes
  THEN [fn |-> "FindKernelMappingForAddress", upid |-> <<>>, ip |-> frame.ip]
  ELSE [fn |-> "FindUserMappingForAddress",
        upid |-> <<LastSample(p).pid_tid[1].pid>>, ip |-> frame.ip]

\* C17: Kernel/user routing.  For every frame of the callchain of a sample
\* that passed the checks exactly one mapping lookup is made: the kernel
\* lookup with the ip when the frame's cpu_mode is kernel or guest-kernel,
\* the user lookup with the upid of the sample's thread and the ip for every
\* other cpu_mode.
C17_KernelUserRouting ==
  SamplePassed(parser) =>
    /\ Len(LookupCalls(parser)) = Len(LastCallchain(parser))
    /\ \A i \in 1..Len(LastCallchain(parser)) :
         LookupCalls(parser)[i] =
           RoutedLookup(parser,
                        LastCallchain(parser)[Len(LastCallchain(parser)) + 1 - i])

\* The same for the calls that return: no frame of MODE_UNKNOWN.
RoutingOfKnownModes ==
  (SamplePassed(parser) /\ ~parser.fatal) =>
    /\ Len(LookupCalls(parser)) = Len(LastCallchain(parser))
    /\ \A i \in 1..Len(LastCallchain(parser)) :
         LookupCalls(parser)[i] =
           RoutedLookup(parser,
                        LastCallchain(parser)[Len(LastCallchain(parser)) + 1 - i])

\* A frame of MODE_UNKNOWN ends the process, and only such a frame does.
FatalOnlyOnUnknownMode ==
  (SamplePassed(parser) /\ parser.fatal) =>
    \E i \in 1..Len(LastCallchain(parser)) :
      LastCallchain(parser)[i].cpu_mode = "MODE_UNKNOWN"

\* The last call created a mapping from a decoded record of type t: the
\* record's fields and the parameters of the mapping created.
MappingCreated(p, t) ==
  /\ p.last # <<>>
  /\ ~p.fatal
  /\ LastRecord(p).type = t
  /\ LastRecord(p).decoded # <<>>

CreatedParams(p) ==
  IF LastRecord(p).cpu_mode \in KernelModes
  THEN p.kernel[Len(p.kernel)]
  ELSE p.user[Len(p.user)].params

\* What the session build-ID map holds for a record's (pid, filename).
SessionBuildId(p, fields) ==
  {b.build_id : b \in {e \in p.session.build_ids :
                         e.pid = fields.pid /\ e.filename = fields.filename}}

\* C18 for one call of ParsePerfRecord, from p to q.
Mmap2BuildIdPrecedence(p, q) ==
  /\ MappingCreated(q, "MMAP2") =>
       /\ Len(q.kernel) + Len(q.user) = Len(p.kernel) + Len(p.user) + 1
       /\ LastSample(q).build_id # <<>> =>
            /\ CreatedParams(q).build_id = LastSample(q).build_id
            /\ q.calls = <<>>
       /\ LastSample(q).build_id = <<>> =>
            \/ /\ SessionBuildId(q, LastSample(q)) = {}
               /\ CreatedParams(q).build_id = <<>>
            \/ /\ CreatedParams(q).build_id # <<>>
               /\ CreatedParams(q).build_id[1] \in SessionBuildId(q, LastSample(q))
  /\ MappingCreated(q, "MMAP") =>
       /\ Len(q.kernel) + Len(q.user) = Len(p.kernel) + Len(p.user) + 1
       /\ q.calls = <<LookupBuildIdCall(LastSample(q))>>
       /\ \/ /\ SessionBuildId(q, LastSample(q)) = {}
             /\ CreatedParams(q).build_id = <<>>
          \/ /\ CreatedParams(q).build_id # <<>>
             /\ CreatedParams(q).build_id[1] \in SessionBuildId(q, LastSample(q))

\* C18: Mmap2 build-ID precedence.  The mapping created for an MMAP2 record
\* carries the build-ID embedded in the record whenever there is one,
\* whatever the session map holds for the same (pid, filename), and
\* LookupBuildId is not called; it is called, and the mapping carries what
\* it returns, only when the record embeds none; the mapping created for an
\* MMAP record always carries what the session map holds.
C18_Mmap2BuildIdPrecedence == [][Mmap2BuildIdPrecedence(parser, parser')]_vars

\* An MMAP2 record with an embedded build-ID created a mapping while the
\* session holds another build-ID for the same (pid, filename).
C18_Witness ==
  /\ MappingCreated(parser, "MMAP2")
  /\ LastSample(parser).build_id # <<>>
  /\ SessionBuildId(parser, LastSample(parser)) # {}
  /\ LastSample(parser).build_id[1] \notin SessionBuildId(parser, LastSample(parser))
  /\ CreatedParams(parser).build_id = LastSample(parser).build_id

\* The last call was for a decoded sample that misses time, {pid, tid} or
\* cpu.
GateFailed(p) ==
  /\ p.last # <<>>
  /\ LastRecord(p).type = "SAMPLE"
  /\ LastRecord(p).decoded # <<>>
  /\ \/ LastSample(p).time = <<>>
     \/ LastSample(p).pid_tid = <<>>
     \/ LastSample(p).cpu = <<>>

\* C19 for one call of ParsePerfRecord, from p to q.
SampleInsertionGate(p, q) ==
  GateFailed(q) =>
    /\ ~q.fatal
    /\ q.res # "OK"
    /\ q.stats = [p.stats EXCEPT !.perf_samples_skipped = @ + 1]
    /\ q.perf_sample = p.perf_sample
    /\ q.threads = p.threads
    /\ q.names = p.names
    /\ q.kernel = p.kernel
    /\ q.user = p.user
    /\ q.frames = p.frames
    /\ q.callsites = p.callsites
    /\ q.calls = <<>>
    /\ q.counters = p.counters

\* C19: Sample-insertion gate.  A decoded sample that misses time,
\* {pid, tid} or cpu is skipped: perf_samples_skipped goes up by one and no
\* other stat changes, no row is inserted into perf_sample, and the process
\* tracker, the mapping tracker, the stack-profile tracker and every per-CPU
\* counter are as before the call.
C19_SampleInsertionGate == [][SampleInsertionGate(parser, parser')]_vars

\* A sample with an ip and a callchain but without cpu was skipped, after a
\* record that left threads or mappings behind.
C19_Witness ==
  /\ GateFailed(parser)
  /\ LastSample(parser).cpu = <<>>
  /\ LastSample(parser).time # <<>>
  /\ LastSample(parser).pid_tid # <<>>
  /\ LastSample(parser).callchain # <<>>
  /\ parser.stats.perf_samples_skipped >= 1
  /\ parser.threads # <<>>

\* The counter updates the call from p to q made.
NewCounterOps(p, q) == SubSeq(q.counters, Len(p.counters) + 1, Len(q.counters))

\* The attrs registered for an event id.
AttrsOfEventId(p, id) == {a \in DOMAIN p.session.attrs : id \in p.session.attrs[a].ids}

\* The row inserted for the last sample.
LastRow(p) == p.perf_sample[Len(p.perf_sample)]

\* The period of the last sample: its own, else its attr's sample_period.
LastPeriod(p) ==
  IF LastSample(p).period # <<>> THEN LastSample(p).period
  ELSE p.session.attrs[LastRecord(p).attr].sample_period

\* C20 for one call of ParsePerfRecord, from p to q.
CounterUpdateRule(p, q) ==
  SampleInterned(q) =>
    LET new == NewCounterOps(p, q)
        rg == LastSample(q).read_groups IN
    IF rg # <<>>
    THEN /\ \A i \in 1..Len(rg) :
              \A a \in AttrsOfEventId(q, rg[i].event_id) :
                \E k \in 1..Len(new) :
                  new[k] = [attr |-> a, cpu |-> LastSample(q).cpu[1],
                            op |-> "AddCount", ts |-> LastRow(q).ts,
                            value |-> rg[i].value]
         /\ \A k \in 1..Len(new) : new[k].op # "AddDelta"
    ELSE IF LastPeriod(q) # <<>>
    THEN /\ new = <<[attr |-> LastRecord(q).attr, cpu |-> LastSample(q).cpu[1],
                     op |-> "AddDelta", ts |-> LastRow(q).ts,
                     value |-> LastPeriod(q)[1]]>>
         /\ q.res = "OK"
    ELSE /\ new = <<>>
         /\ q.res # "OK"

\* C20: Counter update rule.  For an inserted sample with read_groups, each
\* entry whose event_id has a registered attr does AddCount(trace_ts, value)
\* on that attr's counter for the sample's cpu, and no AddDelta is made;
\* without read_groups exactly one AddDelta(trace_ts, period) is made on the
\* counter of the sample's own attr for the sample's cpu, period being the
\* sample's period if present and else the attr's sample_period; if neither
\* exists an error is returned and no counter changes.
C20_CounterUpdateRule == [][CounterUpdateRule(parser, parser')]_vars

\* The entries of a read group up to the first whose event_id has no
\* registered attr.
RECURSIVE RegisteredPrefix(_, _)
RegisteredPrefix(p, rg) ==
  IF rg = <<>> \/ AttrsOfEventId(p, rg[1].event_id) = {} THEN <<>>
  ELSE <<rg[1]>> \o RegisteredPrefix(p, Tail(rg))

\* What the loop of UpdateCountersInReadGroups does: AddCount for the
\* entries before the first unregistered event_id, an error if there is one.
ReadGroupsUntilUnregistered(p, q) ==
  (SampleInterned(q) /\ LastSample(q).read_groups # <<>>) =>
    LET new == NewCounterOps(p, q)
        done == RegisteredPrefix(q, LastSample(q).read_groups) IN
    /\ Len(new) = Len(done)
    /\ \A i \in 1..Len(done) :
         /\ new[i].op = "AddCount"
         /\ new[i].attr \in AttrsOfEventId(q, done[i].event_id)
         /\ new[i].value = done[i].value
    /\ (q.res = "OK") = (Len(done) = Len(LastSample(q).read_groups))
    /\ q.res # "OK" =>
         q.stats.perf_samples_skipped = p.stats.perf_samples_skipped + 1

CountersUntilUnregistered == [][ReadGroupsUntilUnregistered(parser, parser')]_vars

\* The record types ParseRecord has a case for.
HandledTypes == {"COMM", "SAMPLE", "MMAP", "MMAP2", "AUX", "AUXTRACE", "AUXTRACE_INFO"}

\* How often perf_unknown_record_type was incremented for type t.
UnknownCount(p, t) ==
  Cardinality({i \in DOMAIN p.stats.perf_unknown_record_type :
                 p.stats.perf_unknown_record_type[i] = t})

\* The trackers and tables the parser writes to.
ParserTables(p) ==
  <<p.threads, p.names, p.kernel, p.user, p.frames, p.callsites, p.perf_sample,
    p.counters>>

\* C21 for one call of ParsePerfRecord, from p to q.
UnknownRecordType(p, q) ==
  (q.last # <<>> /\ LastRecord(q).type \notin HandledTypes) =>
    /\ ~q.fatal
    /\ q.res # "OK"
    /\ UnknownCount(q, LastRecord(q).type) = UnknownCount(p, LastRecord(q).type) + 1
    /\ Len(q.stats.perf_unknown_record_type) =
         Len(p.stats.perf_unknown_record_type) + 1
    /\ q.stats.perf_record_skipped = p.stats.perf_record_skipped + 1
    /\ q.stats.perf_samples_skipped = p.stats.perf_samples_skipped
    /\ q.stats.perf_dummy_mapping_used = p.stats.perf_dummy_mapping_used
    /\ ParserTables(q) = ParserTables(p)
    /\ q.calls = <<>>

\* C21: a record whose type is none of COMM, SAMPLE, MMAP, MMAP2, AUX,
\* AUXTRACE, AUXTRACE_INFO increments perf_unknown_record_type[type] once and
\* perf_record_skipped once, changes no other stat, no tracker and no table,
\* and leaves the parser able to handle the next record.
C21_UnknownRecordType == [][UnknownRecordType(parser, parser')]_vars

\* After a record of unknown type was counted, a sample was inserted.
C21_Witness ==
  /\ UnknownCount(parser, "EXIT") = 1
  /\ parser.stats.perf_record_skipped = 1
  /\ SampleInterned(parser)
  /\ Len(parser.perf_sample) = 1
  /\ parser.res = "OK"

(***************************************************************************)
(* Properties of GuessTraceType, checked under SpecSniffer.                *)
(***************************************************************************)
\* The bytes passed with the last call.
Passed(sn) == SubSeq(sn.data, 1, sn.size)

Sniffed == sniffer.guess # "none"

\* C22 for the last call: one TraceType is returned, unknown for size 0,
\* perf data for 8 or more bytes that begin with "PERFILE2".
SnifferTotal ==
  Sniffed =>
    /\ sniffer.guess \in TraceTypes
    /\ sniffer.size = 0 => sniffer.guess = "kUnknownTraceType"
    /\ (sniffer.size >= 8 /\ SubSeq(sniffer.data, 1, 8) = kPerfMagicBytes) =>
         sniffer.guess = "kPerfDataTraceType"
    /\ \A f \in Files :
         (MagicOk(f.header) /\ sniffer.size >= 8
          /\ SubSeq(sniffer.data, 1, 8) = MagicBytes(f.header.magic)) =>
           sniffer.guess = "kPerfDataTraceType"

\* C22 for a call and the one before it: the same bytes passed give the
\* same result, whatever lies behind them and whatever was asked before.
SnifferStateless ==
  (Sniffed /\ Passed(sniffer') = Passed(sniffer)) => sniffer'.guess = sniffer.guess

\* C22: the sniffer is stateless and total.  GuessTraceType returns exactly
\* one TraceType for every (data, size), kUnknownTraceType for size 0; the
\* result depends only on the first size bytes of data; data of 8 bytes or
\* more that begin with "PERFILE2" are perf data whatever follows, and so
\* is every input whose magic ParseHeader accepts.
C22_SnifferStatelessTotal == [][SnifferTotal' /\ SnifferStateless]_vars

\* The beginning of a file the tokenizer accepts, followed by a logcat line,
\* was classified as perf data.
C22_Witness ==
  /\ sniffer.guess = "kPerfDataTraceType"
  /\ sniffer.size > 8
  /\ \E f \in Files :
       MagicOk(f.header) /\ SubSeq(sniffer.data, 1, 8) = MagicBytes(f.header.magic)
  /\ IsAndroidLogEvent(SubSeq(sniffer.data, 10, sniffer.size))

(***************************************************************************)
(* Further properties of the tokenizer, checked under Spec.                *)
(***************************************************************************)
\* The place of a parsing state in the order of the enum's pipeline.
StateRank(state) ==
  CASE state = "kParseHeader" -> 1
    [] state = "kParseAttrs" -> 2
    [] state = "kSeekRecords" -> 3
    [] state = "kParseRecords" -> 4
    [] state = "kParseFeatureSections" -> 5
    [] state = "kParseFeatures" -> 6
    [] state = "kDone" -> 7

\* C23 for one Parse call: each state function it ran stayed in its state or
\* went to the next one, ParseFeatureSections to kDone when there is no
\* feature id.
ForwardOnly ==
  /\ StateRank(parsing_state_') >= StateRank(parsing_state_)
  /\ parsing_state_ = "kDone" => parsing_state_' = "kDone"
  /\ log' # <<>> =>
       /\ log'[1].fn = parsing_state_
       /\ log'[Len(log')].next = parsing_state_'
  /\ \A i \in DOMAIN log' :
       /\ i > 1 => log'[i].fn = log'[i - 1].next
       /\ \/ log'[i].next = log'[i].fn
          \/ StateRank(log'[i].next) = StateRank(log'[i].fn) + 1
          \/ /\ log'[i].fn = "kParseFeatureSections"
             /\ log'[i].next = "kDone"
             /\ feature_ids_' = {}

\* C23: parsing_state_ only moves forward along ParseHeader, ParseAttrs,
\* SeekRecords, ParseRecords, ParseFeatureSections, ParseFeatures, Done: no
\* Parse call takes it back, no state function skips a state except
\* ParseFeatureSections, which goes to Done when no feature bit is set, and
\* Done is never left.
C23_StateForwardOnly == [][ForwardOnly]_vars

\* The tokenizer went through every state to Done, over a file with feature
\* sections.
C23_Witness ==
  /\ parsing_state_ = "kDone"
  /\ feature_ids_ # {}
  /\ features # <<>>
  /\ status = "OK"

\* The tokenizer went from ParseFeatureSections to Done, over a file with
\* no feature bit set.
C23_NoFeatures ==
  /\ parsing_state_ = "kDone"
  /\ feature_ids_ = {}
  /\ \E i \in DOMAIN log : log[i].fn = "kParseFeatureSections" /\ log[i].next = "kDone"

\* The records of the file whose header ParseRecords can get to: every
\* record before them has a valid size.
Boundaries ==
  {k \in 1..(Len(file.records) + 1) :
     \A j \in 1..(k - 1) : file.records[j].size >= RecordHeaderSize}

\* C24: records are emitted in file order.  While the tokenizer is in
\* ParseRecords the buffer starts at data.offset or at the end of a record
\* it has taken out, so the first header is read at data.offset and each
\* following one at the previous record's offset plus its header.size; the
\* records pushed to the sorter are records of the file, in increasing order
\* of their offset, each at most once.
C24_FileOrder ==
  /\ (parsing_state_ = "kParseRecords" /\ ~aborted) =>
       \E k \in Boundaries : buffer_.start = RecOffset(k)
  /\ \A i \in DOMAIN log :
       (log[i].fn = "kSeekRecords" /\ log[i].next = "kParseRecords") =>
         log[i].start = file.header.data.offset
  /\ \A i \in DOMAIN Pushed :
       \E k \in DOMAIN file.records :
         /\ Pushed[i].record.offset = RecOffset(k)
         /\ Pushed[i].record.header =
              [type |-> file.records[k].type, size |-> file.records[k].size]
         /\ Consumed(k)
  /\ \A i, j \in DOMAIN Pushed :
       i < j => Pushed[i].record.offset < Pushed[j].record.offset

\* Two records were pushed, the second from where the first ended.
C24_Witness ==
  /\ Len(Pushed) >= 2
  /\ Pushed[1].record.offset = file.header.data.offset
  /\ Pushed[2].record.offset = Pushed[1].record.offset + Pushed[1].record.header.size
  /\ Pushed[1].record.header.size > RecordHeaderSize

\* The attrs of the session Build makes of the file's attrs section: one
\* per entry, in section order, with the ids of its ids sub-range.
SessionAttrsOfFile ==
  [i \in 1..NumAttrs(file.header) |->
     [idx |-> i, sample_type |-> AttrsEntry(i).attr.sample_type,
      sample_id_all |-> AttrsEntry(i).attr.sample_id_all, ids |-> ReadIds(i)]]

\* The buffer start before log entry i of a Parse call that began at start.
StartBefore(lg, start, i) == IF i = 1 THEN start ELSE lg[i - 1].start

\* C25 for one Parse call.
AttrsRestartable ==
  /\ \A i \in DOMAIN log' :
       log'[i].fn = "kParseAttrs" =>
         /\ ~aborted' => log'[i].start = StartBefore(log', buffer_.start, i)
         /\ log'[i].next = "kSeekRecords" <=> log'[i].res = kSuccess
  /\ perf_session_' # perf_session_ =>
       \/ /\ perf_session_ = NullSession
          /\ perf_session_'.attrs = SessionAttrsOfFile
          /\ \E i \in DOMAIN log' :
               log'[i].fn = "kParseAttrs" /\ log'[i].res = kSuccess
       \/ /\ perf_session_ # NullSession
          /\ perf_session_'.attrs = perf_session_.attrs
          /\ perf_session_'.id = perf_session_.id
  /\ (StateRank(parsing_state_') <= 2) = (perf_session_' = NullSession)

\* C25: ParseAttrs never advances the buffer start and is restartable.
\* However often it returned MoreDataNeeded, the session is built once, in
\* the call in which ParseAttrs succeeds, from every entry of the attrs
\* section in section order, each with exactly the ids of its ids sub-range;
\* it is never built again, and parsing_state_ is past ParseAttrs exactly
\* when the session exists.
C25_AttrsRestartable == [][AttrsRestartable]_vars

\* ParseAttrs has the attrs section but not yet the ids of an entry: it
\* returned MoreDataNeeded and there is no session.
C25_Witness ==
  /\ parsing_state_ = "kParseAttrs"
  /\ Len(log) >= 1
  /\ log[Len(log)].fn = "kParseAttrs"
  /\ log[Len(log)].res = kMoreDataNeeded
  /\ delivered >= End(file.header.attrs)
  /\ \E i \in 1..NumAttrs(file.header) : AttrsEntry(i).idvals # <<>>
  /\ perf_session_ = NullSession

\* The session was built from two entries with ids, in a Parse call that
\* began in ParseAttrs.
C25_Built ==
  /\ Len(perf_session_.attrs) >= 2
  /\ perf_session_.attrs = SessionAttrsOfFile
  /\ \E i \in DOMAIN perf_session_.attrs : perf_session_.attrs[i].ids # <<>>
  /\ log # <<>>
  /\ log[1].fn = "kParseAttrs"
  /\ log[1].res = kSuccess

\* The feature index as ParseFeatureSections reads it: the k-th Section
\* belongs to the k-th smallest feature id.
FeatureIndex ==
  LET ids == Ascending(feature_ids_) IN
  [k \in DOMAIN ids |-> [id |-> ids[k], section |-> IndexEntry(k)]]

\* The Section of a feature id.
SectionOf(id) ==
  (CHOOSE k \in DOMAIN FeatureIndex : FeatureIndex[k].id = id)

NoErrorYet == status \notin ErrorStatuses /\ ~aborted

\* The rule of C26 in the states where pre holds.
FeatureSectionsRule(pre) ==
  /\ StateRank(parsing_state_) <= 5 => feature_sections_ = <<>> /\ features = <<>>
  /\ parsing_state_ = "kDone" => feature_sections_ = <<>>
  /\ (StateRank(parsing_state_) >= 6 /\ pre) =>
       /\ status \notin ErrorStatuses =>
            Len(feature_sections_) + Len(features) = Cardinality(feature_ids_)
       /\ Cardinality({feature_sections_[k].id : k \in DOMAIN feature_sections_})
            = Len(feature_sections_)
       /\ {feature_sections_[k].id : k \in DOMAIN feature_sections_}
            \cup {features[i] : i \in DOMAIN features} = feature_ids_
       /\ \A k \in DOMAIN feature_sections_ :
            feature_sections_[k] = FeatureIndex[SectionOf(feature_sections_[k].id)]
       /\ \A k, l \in DOMAIN feature_sections_ :
            k < l => feature_sections_[k].section.offset
                       >= feature_sections_[l].section.offset
       /\ \A i, j \in DOMAIN features :
            i < j => FeatureIndex[SectionOf(features[i])].section.offset
                       < FeatureIndex[SectionOf(features[j])].section.offset
       /\ \A i \in DOMAIN features : \A k \in DOMAIN feature_sections_ :
            FeatureIndex[SectionOf(features[i])].section.offset
              <= feature_sections_[k].section.offset
       /\ (features # <<>> /\ status \notin ErrorStatuses) =>
            buffer_.start =
              End(FeatureIndex[SectionOf(features[Len(features)])].section)

KnownFeatures ==
  {ID_CMD_LINE, ID_EVENT_DESC, ID_BUILD_ID, ID_GROUP_DESC,
   ID_SIMPLEPERF_META_INFO, ID_SIMPLEPERF_FILE2}

SessionFeatures ==
  {ID_CMD_LINE, ID_EVENT_DESC, ID_BUILD_ID, ID_SIMPLEPERF_META_INFO}

IsUnknownFeature(id) == id \notin KnownFeatures

\* The end of the Section that the index of the feature ids gives to id.
SectionEndIn(ids, id) ==
  LET asc == Ascending(ids) IN
  End(IndexEntry(CHOOSE k \in DOMAIN asc : asc[k] = id))

\* C27 for one Parse call.
UnknownFeatureSkipped ==
  /\ stats'.perf_features_skipped = SelectSeq(features', IsUnknownFeature)
  /\ perf_session_'.meta \subseteq SessionFeatures
  /\ (perf_session_ # NullSession /\ perf_session_' # perf_session_) =>
       \E i \in DOMAIN features' :
         i > Len(features) /\ features'[i] \in SessionFeatures
  /\ \A i \in DOMAIN features' :
       (i > Len(features) /\ features'[i] \notin SessionFeatures
        /\ features'[i] \notin file.bad_features /\ ~aborted') =>
         /\ buffer_'.start >= SectionEndIn(feature_ids_', features'[i])
         /\ i = Len(features') => status' = "OK"

\* C27: a feature section whose id is none of CMD_LINE, EVENT_DESC,
\* BUILD_ID, GROUP_DESC, SIMPLEPERF_META_INFO, SIMPLEPERF_FILE2 increments
\* perf_features_skipped[id] once and nothing else: the session changes only
\* in a call that dispatched a section of a session-writing id, no error is
\* returned for it, and its bytes are released so that the next section is
\* taken; a well-formed GROUP_DESC section is released likewise without a
\* change of the session.
C27_UnknownFeatureSkipped == [][UnknownFeatureSkipped]_vars

\* An unknown feature id was counted once and the GROUP_DESC section behind
\* it dispatched; the session holds no metadata; the tokenizer is Done.
C27_Witness ==
  /\ parsing_state_ = "kDone"
  /\ status = "OK"
  /\ Len(features) = 2
  /\ IsUnknownFeature(features[1])
  /\ features[2] = ID_GROUP_DESC
  /\ stats.perf_features_skipped = <<features[1]>>
  /\ perf_session_ # NullSession
  /\ perf_session_.meta = {}

\* The lookup InternCallchain makes for a frame finds no mapping among the
\* mappings of p.
FrameUnmapped(p, upid, frame) ==
  IF frame.cpu_mode \in KernelModes
  THEN \A i \in DOMAIN p.kernel :
         ~(p.kernel[i].start <= frame.ip /\ frame.ip < p.kernel[i].end)
  ELSE \A i \in DOMAIN p.user :
         ~(/\ p.user[i].upid = upid
           /\ p.user[i].params.start <= frame.ip
           /\ frame.ip < p.user[i].params.end)

CounterErrors ==
  {"No period for sample", "No cpu for sample", "No perf_event_attr for id"}

\* C28 for one call of ParsePerfRecord, from p to q.
DummyMappingUsed(p, q) ==
  SampleInterned(q) =>
    LET chain == LastCallchain(q)
        N == Len(chain)
        cs == CallsiteCalls(q)
        upid == LastSample(q).pid_tid[1].pid
        unmapped == {i \in 1..N : FrameUnmapped(p, upid, chain[N + 1 - i])} IN
    /\ q.stats.perf_dummy_mapping_used =
         p.stats.perf_dummy_mapping_used + Cardinality(unmapped)
    /\ Len(cs) = N
    /\ \A i \in 1..N :
         /\ cs[i].frame \in DOMAIN q.frames
         /\ i \in unmapped <=> q.frames[cs[i].frame].mapping = GetDummyMapping
         /\ i \in unmapped => q.frames[cs[i].frame].rel_pc = chain[N + 1 - i].ip
         /\ cs[i].id \in DOMAIN q.callsites
    /\ q.kernel = p.kernel /\ q.user = p.user
    /\ Len(q.perf_sample) = Len(p.perf_sample) + 1
    /\ q.perf_sample[Len(q.perf_sample)].callsite_id = q.callsite
    /\ q.res # "OK" => q.res \in CounterErrors
    /\ q.stats.perf_samples_skipped =
         p.stats.perf_samples_skipped + (IF q.res = "OK" THEN 0 ELSE 1)

\* C28: Dummy mapping.  When a sample is interned, perf_dummy_mapping_used
\* goes up by one for each frame of its callchain whose lookup finds no
\* mapping and by nothing else; exactly those frames are interned in the
\* dummy mapping, with the ip as relative pc; every frame still gets its
\* callsite and the sample its row in perf_sample; the call fails only with
\* an error of the counter update, never because a mapping is missing.
C28_DummyMappingUsed == [][DummyMappingUsed(parser, parser')]_vars

\* A sample of a kernel and a user frame was interned when only the kernel
\* had a mapping: one frame is in the kernel mapping, one in the dummy.
C28_Witness ==
  /\ SampleInterned(parser)
  /\ Len(LastCallchain(parser)) = 2
  /\ parser.kernel # <<>>
  /\ parser.user = <<>>
  /\ parser.stats.perf_dummy_mapping_used = 1
  /\ \E f \in DOMAIN parser.frames : parser.frames[f].mapping = GetDummyMapping
  /\ \E f \in DOMAIN parser.frames : parser.frames[f].mapping.kind = "kernel"
  /\ parser.perf_sample # <<>>
  /\ parser.res = "OK"

\* C29 for one call of ParsePerfRecord, from p to q.
IpCallchain(p, q) ==
  SamplePassed(q) =>
    LET smp == LastSample(q)
        N == Len(smp.callchain)
        cs == CallsiteCalls(q)
        lk == LookupCalls(q) IN
    /\ (smp.callchain = <<>> /\ smp.ip # <<>>) =>
         /\ lk = <<RoutedLookup(q, [cpu_mode |-> LastRecord(q).cpu_mode,
                                    ip |-> smp.ip[1]])>>
         /\ Len(cs) = 1
         /\ cs[1].depth = 0
         /\ cs[1].parent = <<>>
         /\ q.frames[cs[1].frame].rel_pc =
              ToRelativePc(q, q.frames[cs[1].frame].mapping, smp.ip[1])
         /\ Len(q.perf_sample) = Len(p.perf_sample) + 1
         /\ q.perf_sample[Len(q.perf_sample)].callsite_id = <<cs[1].id>>
    /\ (smp.callchain = <<>> /\ smp.ip = <<>>) =>
         /\ q.calls = <<>>
         /\ q.frames = p.frames
         /\ q.callsites = p.callsites
         /\ Len(q.perf_sample) = Len(p.perf_sample) + 1
         /\ q.perf_sample[Len(q.perf_sample)].callsite_id = <<>>
    /\ smp.callchain # <<>> =>
         /\ Len(lk) <= N
         /\ Len(cs) <= N
         /\ \A i \in 1..Len(lk) : lk[i].ip = smp.callchain[N + 1 - i].ip

\* C29: Callchain from the ip.  A sample that passed the checks and has an
\* ip but an empty callchain is inserted with the callsite of the one frame
\* {the sample's cpu_mode, ip}, of depth 0 and without parent; a sample with
\* neither is inserted without a callsite and interns nothing; for a sample
\* with a callchain no frame is looked up or interned for its ip.
C29_IpCallchain == [][IpCallchain(parser, parser')]_vars

\* The same for the calls that return.
IpCallchainOfKnownModes ==
  [][~parser'.fatal => IpCallchain(parser, parser')]_vars

\* A sample with an ip and no callchain was inserted with a callsite of
\* depth 0; one with an ip and a callchain of another address was inserted.
IpCallchainSynthesised ==
  /\ SampleInterned(parser)
  /\ LastSample(parser).callchain = <<>>
  /\ LastSample(parser).ip # <<>>
  /\ parser.callsite # <<>>
  /\ parser.callsites[parser.callsite[1]].depth = 0

IpCallchainKept ==
  /\ SampleInterned(parser)
  /\ LastSample(parser).callchain # <<>>
  /\ LastSample(parser).ip # <<>>
  /\ \A c \in 1..Len(LastSample(parser).callchain) :
       LastSample(parser).callchain[c].ip # LastSample(parser).ip[1]

\* C30 for one call of ParsePerfRecord, from p to q.
CommRule(p, q) ==
  (q.last # <<>> /\ LastRecord(q).type = "COMM") =>
    IF LastRecord(q).decoded # <<>>
    THEN
      LET comm == LastRecord(q).decoded[1]
          thread == [tid |-> comm.tid, pid |-> comm.pid] IN
      /\ q.calls =
           <<[fn |-> "UpdateThread", tid |-> comm.tid, pid |-> comm.pid],
             [fn |-> "UpdateThreadName", tid |-> comm.tid, name |-> comm.comm,
              priority |-> "kFtrace"]>>
      /\ q.threads = IF \E u \in DOMAIN p.threads : p.threads[u] = thread
                     THEN p.threads
                     ELSE p.threads \o <<thread>>
      /\ q.names = p.names \o <<[tid |-> comm.tid, name |-> comm.comm,
                                 priority |-> "kFtrace"]>>
      /\ q.res = "OK"
      /\ q.stats = p.stats
    ELSE
      /\ q.calls = <<>>
      /\ q.threads = p.threads
      /\ q.names = p.names
      /\ q.res = "Failed to parse PERF_RECORD_COMM"
      /\ q.stats = [p.stats EXCEPT !.perf_record_skipped = @ + 1]

\* C30: COMM records.  A COMM record whose pid, tid and name are read calls
\* UpdateThread(tid, pid) and then UpdateThreadName(tid, comm, kFtrace),
\* once each and nothing else, and no stat changes; one of which a read
\* fails calls neither, leaves threads and names as they were and adds one
\* to perf_record_skipped and to no other stat.
C30_CommRule == [][CommRule(parser, parser')]_vars

\* A COMM record of a thread not seen before was handled after one that
\* could not be read.
C30_Witness ==
  /\ parser.last # <<>>
  /\ LastRecord(parser).type = "COMM"
  /\ LastRecord(parser).decoded # <<>>
  /\ Len(parser.calls) = 2
  /\ parser.calls[1].fn = "UpdateThread"
  /\ parser.calls[2].fn = "UpdateThreadName"
  /\ parser.stats.perf_record_skipped = 1
  /\ parser.names # <<>>
  /\ parser.threads # <<>>
  /\ parser.threads[Len(parser.threads)].tid =
       LastRecord(parser).decoded[1].tid

\* The parameters the claim asks of a mapping made from fields, the build
\* id apart.
ClaimedParams(fields) ==
  [start |-> fields.addr, end |-> fields.addr + fields.len,
   exact_offset |-> fields.pgoff, start_offset |-> 0, load_bias |-> 0,
   name |-> fields.filename, build_id |-> <<>>]

\* C31 for one call of ParsePerfRecord, from p to q.
MmapRule(p, q) ==
  (q.last # <<>> /\ LastRecord(q).type \in {"MMAP", "MMAP2"}) =>
    IF LastRecord(q).decoded = <<>>
    THEN /\ q.kernel = p.kernel
         /\ q.user = p.user
         /\ q.threads = p.threads
         /\ q.res # "OK"
    ELSE
      LET fields == LastRecord(q).decoded[1]
          thread == [tid |-> fields.tid, pid |-> fields.pid] IN
      IF LastRecord(q).cpu_mode \in KernelModes
      THEN /\ Len(q.kernel) = Len(p.kernel) + 1
           /\ SubSeq(q.kernel, 1, Len(p.kernel)) = p.kernel
           /\ [q.kernel[Len(q.kernel)] EXCEPT !.build_id = <<>>] =
                ClaimedParams(fields)
           /\ q.user = p.user
           /\ q.threads = p.threads
           /\ q.res = "OK"
      ELSE /\ Len(q.user) = Len(p.user) + 1
           /\ SubSeq(q.user, 1, Len(p.user)) = p.user
           /\ q.user[Len(q.user)].upid = fields.pid
           /\ [q.user[Len(q.user)].params EXCEPT !.build_id = <<>>] =
                ClaimedParams(fields)
           /\ q.kernel = p.kernel
           /\ q.threads = IF \E u \in DOMAIN p.threads : p.threads[u] = thread
                          THEN p.threads
                          ELSE p.threads \o <<thread>>
           /\ q.res = "OK"

\* C31: Mappings of MMAP and MMAP2.  A decoded MMAP or MMAP2 record creates
\* exactly one mapping, over [addr, addr + len) with the record's pgoff,
\* start_offset 0 and load_bias 0: a kernel mapping, the process tracker
\* untouched, when the record's cpu_mode is kernel or guest-kernel, and for
\* every other cpu_mode a user mapping under the upid of the thread
\* UpdateThread(tid, pid) gives; a record that does not decode creates none.
C31_MmapRule == [][MmapRule(parser, parser')]_vars

\* The same for the calls that return.
MmapRuleOfKnownModes == [][~parser'.fatal => MmapRule(parser, parser')]_vars

\* A guest-kernel record with a pgoff made a kernel mapping; a user record
\* of a thread not seen before made a user mapping.
MmapKernelCreated ==
  /\ MappingCreated(parser, "MMAP")
  /\ LastRecord(parser).cpu_mode = "MODE_GUEST_KERNEL"
  /\ parser.kernel # <<>>
  /\ parser.kernel[Len(parser.kernel)].exact_offset = 5

MmapUserCreated ==
  /\ MappingCreated(parser, "MMAP2")
  /\ LastRecord(parser).cpu_mode = "MODE_GUEST_USER"
  /\ parser.user # <<>>
  /\ parser.user[Len(parser.user)].upid = 3
  /\ parser.threads[Len(parser.threads)] = [tid |-> 4, pid |-> 3]

\* What a call of ParsePerfRecord from p to q did for a SAMPLE record.
RowInserted(p, q) == Len(q.perf_sample) = Len(p.perf_sample) + 1

SampleSkipped(p, q) ==
  q.stats.perf_samples_skipped = p.stats.perf_samples_skipped + 1

SampleHandled(q) ==
  q.last # <<>> /\ ~q.fatal /\ LastRecord(q).type = "SAMPLE"

\* C36 for one call of ParsePerfRecord that returns, from p to q.
SampleOneFate(p, q) ==
  SampleHandled(q) =>
    /\ RowInserted(p, q) \/ SampleSkipped(p, q)
    /\ ~(RowInserted(p, q) /\ SampleSkipped(p, q))

\* C36: One fate per sample.  For every SAMPLE record ParsePerfRecord
\* handles, either a row is inserted into perf_sample or
\* perf_samples_skipped is incremented, never both and never neither, also
\* when the counter update fails.
C36_SampleOneFate == [][SampleOneFate(parser, parser')]_vars

\* What the code does: at least one of the two, and both exactly when the
\* sample passed the checks and the counter update failed.
SampleRowThenSkip(p, q) ==
  SampleHandled(q) =>
    /\ RowInserted(p, q) \/ SampleSkipped(p, q)
    /\ RowInserted(p, q) \/ q.perf_sample = p.perf_sample
    /\ SampleSkipped(p, q) \/ q.stats = p.stats
         \/ q.stats = [p.stats EXCEPT !.perf_dummy_mapping_used =
                                        q.stats.perf_dummy_mapping_used]
    /\ RowInserted(p, q) = SampleInterned(q)
    /\ SampleSkipped(p, q) = (q.res # "OK")
    /\ (RowInserted(p, q) /\ SampleSkipped(p, q)) = (q.res \in CounterErrors)

SampleRowOrSkip == [][SampleRowThenSkip(parser, parser')]_vars

\* A sample without a period, of an attr without a sample_period, has its
\* row and is counted as skipped.
SampleInsertedAndSkipped ==
  /\ SampleInterned(parser)
  /\ parser.res = "No period for sample"
  /\ parser.perf_sample # <<>>
  /\ parser.stats.perf_samples_skipped >= 1

\* C37 for one call of ParsePerfRecord, from p to q.
ReadGroupsInOrder(p, q) ==
  (SampleInterned(q) /\ LastSample(q).read_groups # <<>>) =>
    LET rg == LastSample(q).read_groups
        new == NewCounterOps(p, q)
        bad == {i \in 1..Len(rg) : AttrsOfEventId(q, rg[i].event_id) = {}}
        stop == IF bad = {} THEN Len(rg) + 1
                ELSE CHOOSE i \in bad : \A j \in bad : i <= j IN
    /\ SubSeq(q.counters, 1, Len(p.counters)) = p.counters
    /\ Len(new) = stop - 1
    /\ \A i \in 1..(stop - 1) :
         /\ new[i].op = "AddCount"
         /\ new[i].attr \in AttrsOfEventId(q, rg[i].event_id)
         /\ new[i].cpu = LastSample(q).cpu[1]
         /\ new[i].ts = LastRow(q).ts
         /\ new[i].value = rg[i].value
    /\ bad # {} => q.res = "No perf_event_attr for id"
    /\ bad = {} => q.res = "OK"

\* C37: Read groups in order.  The entries of read_groups are taken in list
\* order; each entry before the first whose event_id has no attr causes one
\* AddCount(trace_ts, value) on its attr's counter of the sample's cpu, and
\* those stay; that entry and the ones after it change no counter and an
\* error is returned; when every event_id has an attr, each entry causes
\* exactly one AddCount and the call succeeds.
C37_ReadGroupsInOrder == [][ReadGroupsInOrder(parser, parser')]_vars

\* A sample whose second entry has no attr: one AddCount, then the error.
C37_Witness ==
  /\ SampleInterned(parser)
  /\ Len(LastSample(parser).read_groups) = 2
  /\ AttrsOfEventId(parser, LastSample(parser).read_groups[1].event_id) # {}
  /\ AttrsOfEventId(parser, LastSample(parser).read_groups[2].event_id) = {}
  /\ parser.counters # <<>>
  /\ parser.counters[Len(parser.counters)].op = "AddCount"
  /\ parser.counters[Len(parser.counters)].value =
       LastSample(parser).read_groups[1].value
  /\ parser.res = "No perf_event_attr for id"

\* The record types C38 is about: all but the three the tokenizer drops.
ParserRecord(p) == p.last # <<>> /\ LastRecord(p).type \notin AuxTypes

\* C38: No abort.  ParsePerfRecord returns for every COMM, SAMPLE, MMAP,
\* MMAP2 and unknown-type record, whatever cpu mode its header gives, mode
\* unknown included: a failure is a skip of the record, never the end of
\* the process.
C38_NoAbort == ParserRecord(parser) => ~parser.fatal

\* When the process ends on such a record: a decoded MMAP or MMAP2 record of
\* mode unknown, or a sample that passed the checks and has a frame of mode
\* unknown, its own or the one made from its ip.
AbortOnlyOnUnknownMode ==
  (ParserRecord(parser) /\ parser.fatal) =>
    \/ /\ LastRecord(parser).type \in {"MMAP", "MMAP2"}
       /\ LastRecord(parser).decoded # <<>>
       /\ LastRecord(parser).cpu_mode = "MODE_UNKNOWN"
    \/ /\ SamplePassed(parser)
       /\ \E i \in 1..Len(LastCallchain(parser)) :
            LastCallchain(parser)[i].cpu_mode = "MODE_UNKNOWN"

\* A COMM record of mode unknown was handled and the parser returned.
CommOfUnknownModeReturns ==
  /\ ParserRecord(parser)
  /\ LastRecord(parser).type = "COMM"
  /\ LastRecord(parser).cpu_mode = "MODE_UNKNOWN"
  /\ ~parser.fatal
  /\ parser.res = "OK"

\* A run of ParseFeatureSections in the last Parse call failed the check at
\* its entry: it aborted with the buffer start not at the end of data.
EntryCheckFailed(entry) ==
  /\ entry.fn = "kParseFeatureSections"
  /\ entry.res = kAbort
  /\ entry.start # End(header_.data)

\* C32: Entry of ParseFeatureSections.  Whenever ParseFeatureSections runs,
\* start_offset() equals data.end, so its PERFETTO_CHECK never fails, for
\* every file that passed the earlier checks, one whose last record ends
\* past data.end included.
C32_FeatureSectionsEntry ==
  /\ \A i \in DOMAIN log : ~EntryCheckFailed(log[i])
  /\ parsing_state_ = "kParseFeatureSections" => buffer_.start = End(header_.data)

\* The records of the file tile its data section.
RecordsTileData == SumSizes(file.records, Len(file.records)) = file.header.data.size

\* For such files the check holds.
EntryCheckOfTiledData == RecordsTileData => C32_FeatureSectionsEntry

\* ParseFeatureSections ran on a file whose records tile the data section.
FeatureSectionsEntered ==
  /\ RecordsTileData
  /\ file.records # <<>>
  /\ \E i \in DOMAIN log :
       log[i].fn = "kParseFeatureSections" /\ log[i].res = kSuccess

\* The feature sections of the file lie after the feature index and no two
\* of them overlap; there may be bytes between them.
SectionsApart ==
  /\ \A k \in DOMAIN file.feature_index :
       file.feature_index[k].offset >=
         End(file.header.data) + Len(file.feature_index) * SectionSize
  /\ \A k, l \in DOMAIN file.feature_index :
       k # l => \/ End(file.feature_index[k]) <= file.feature_index[l].offset
                \/ End(file.feature_index[l]) <= file.feature_index[k].offset

\* C33 for one Parse call.
UnexpectedData ==
  /\ parsing_state_ = "kDone" =>
       /\ parsing_state_' = "kDone"
       /\ ~empty(buffer_') => status' = "Unexpected data"
       /\ sorter' = sorter
       /\ stats' = stats
       /\ features' = features
       /\ perf_session_' = perf_session_
  /\ (parsing_state_' = "kDone" /\ ~empty(buffer_')) =>
       status' = "Unexpected data"
  /\ status' = "Unexpected data" =>
       parsing_state_' = "kDone" /\ ~empty(buffer_')
  /\ (StateRank(parsing_state_') >= 6 /\ SectionsApart
      /\ file.bad_features = {}) =>
       /\ ~aborted'
       /\ status' \in {"OK", "Unexpected data"}

\* C33: Unexpected data.  A Parse call made in state Done that leaves the
\* buffer non-empty returns "Unexpected data", pushes nothing and changes
\* neither the stats nor the session; so does the call that reaches Done
\* with bytes left after the last feature section or, without features,
\* after the feature index; the error is returned in no other case, and
\* bytes between two feature sections are dropped without error.
C33_UnexpectedData == [][UnexpectedData]_vars

\* A file with bytes after its last feature section: both sections were
\* dispatched, then the error.
C33_Witness ==
  /\ parsing_state_ = "kDone"
  /\ status = "Unexpected data"
  /\ ~empty(buffer_)
  /\ Len(features) = 2
  /\ delivered = file.len
  /\ \A k \in DOMAIN file.feature_index : End(file.feature_index[k]) < file.len

\* A file with 4 bytes between its two sections reached Done without error.
GapDiscarded ==
  /\ parsing_state_ = "kDone"
  /\ status = "OK"
  /\ empty(buffer_)
  /\ Len(features) = 2
  /\ \E k, l \in DOMAIN file.feature_index :
       End(file.feature_index[k]) < file.feature_index[l].offset

\* A file without features and with bytes after its data section.
UnexpectedDataNoFeatures ==
  /\ parsing_state_ = "kDone"
  /\ status = "Unexpected data"
  /\ file.feature_index = <<>>
  /\ features = <<>>

\* The records ParseRecord has read, and of them those pushed to the sorter
\* and those of an AUX type that PushRecord let go.
ReadRecords == {k \in DOMAIN file.records : Consumed(k)}

PushedRecords ==
  {k \in ReadRecords : \E i \in DOMAIN Pushed : Pushed[i].record.offset = RecOffset(k)}

AuxDropped ==
  {k \in ReadRecords :
     file.records[k].type \in AuxTypes /\ TimeStepOk(FileRecord(k))}

\* C35: Record accounting.  Every record ParseRecord has read was pushed to
\* the sorter, or dropped as AUX, AUXTRACE or AUXTRACE_INFO, or counted in
\* perf_record_skipped, and only one of the three; the number of records
\* read is the number pushed plus the number dropped plus
\* perf_record_skipped, and the sorter holds no record twice and none that
\* was not read.
C35_RecordAccounting ==
  /\ Cardinality(ReadRecords) =
       Len(Pushed) + Cardinality(AuxDropped) + stats.perf_record_skipped
  /\ ReadRecords = PushedRecords \cup AuxDropped \cup SkippedRecords
  /\ PushedRecords \cap AuxDropped = {}
  /\ PushedRecords \cap SkippedRecords = {}
  /\ AuxDropped \cap SkippedRecords = {}
  /\ stats.perf_record_skipped = Cardinality(SkippedRecords)
  /\ Len(Pushed) = Cardinality(PushedRecords)
  /\ \A i \in DOMAIN Pushed :
       \E k \in ReadRecords : Pushed[i].record.offset = RecOffset(k)

\* Two records were read: one dropped as AUX, one skipped.
C35_Witness ==
  /\ Cardinality(ReadRecords) = 2
  /\ Cardinality(AuxDropped) = 1
  /\ stats.perf_record_skipped = 1
  /\ Pushed = <<>>

\* Two records were read: one pushed, one skipped.
PushedAndSkipped ==
  /\ Cardinality(ReadRecords) = 2
  /\ Len(Pushed) = 1
  /\ stats.perf_record_skipped = 1

\* C39 for one Parse call: the session reference does not change once the
\* session is built, and the sorter grows only in ParseRecords or later.
SessionKept ==
  /\ perf_session_ # NullSession =>
       /\ perf_session_'.id = perf_session_.id
       /\ perf_session_'.attrs = perf_session_.attrs
  /\ Len(Pushed') > Len(Pushed) => StateRank(parsing_state_') >= 4
  /\ clock'.sets >= clock.sets

\* The state part: the clock was set once, by the ParseHeader that
\* succeeded; the session exists from the end of ParseAttrs on; records are
\* in the sorter only then, and each carries that session.
SessionBeforePush ==
  /\ clock.sets = IF StateRank(parsing_state_) >= 2 THEN 1 ELSE 0
  /\ clock.trace_time_clock = IF clock.sets = 0 THEN "NONE" ELSE "MONOTONIC"
  /\ (perf_session_ # NullSession) = (StateRank(parsing_state_) >= 3)
  /\ Pushed # <<>> =>
       /\ StateRank(parsing_state_) >= 4
       /\ perf_session_ # NullSession
       /\ clock.sets = 1
  /\ \A i \in DOMAIN Pushed :
       /\ Pushed[i].record.session = perf_session_.id
       /\ Pushed[i].record.session # NullSession.id

\* C39: Session before push.  No record is pushed to the sorter before the
\* session has been built: the tokenizer is in ParseRecords or later, after
\* ParseHeader set the trace-time clock to MONOTONIC, which it does exactly
\* once; every record pushed carries the same session, the one ParseAttrs
\* built.
C39_SessionBeforePush == [][SessionBeforePush /\ SessionBeforePush' /\ SessionKept]_vars

\* Two records were pushed, both with the session the tokenizer holds, and
\* the clock was set once.
C39_Witness ==
  /\ Len(Pushed) = 2
  /\ Pushed[1].record.session = Pushed[2].record.session
  /\ Pushed[1].record.session = perf_session_.id
  /\ clock.sets = 1
  /\ parsing_state_ = "kParseFeatureSections"

\* A record pushed before a feature wrote to the session carries the
\* session the feature wrote to.
SessionSharedWithFeatures ==
  /\ Pushed # <<>>
  /\ perf_session_.meta # {}
  /\ Pushed[1].record.session = perf_session_.id

\* Every record of the file has been handed to PushRecord, and every
\* feature section to ParseFeature.
AllHanded == \A k \in DOMAIN file.records : Consumed(k)

AllDispatched ==
  /\ Len(features) = Len(file.feature_index)
  /\ {features[i] : i \in DOMAIN features} =
       ExtractFeatureIds(file.header.flags, file.header.flags1)

\* C34: Progress.  When every byte of a well-formed file is delivered, in
\* any chunking, every record of the data section is eventually handed to
\* PushRecord, every feature section is eventually dispatched and the
\* tokenizer eventually is in Done, a file without feature bits that ends
\* at data.end included.
C34_Progress ==
  WellFormedFile =>
    <>(AllHanded /\ AllDispatched /\ parsing_state_ = "kDone")

\* Where the tokenizer of a well-formed file ends: in Done when bytes follow
\* the data section; at the end of a file that ends at data.end, in
\* ParseFeatureSections, or in ParseRecords when the file has no record.
RestingState ==
  IF file.len > End(file.header.data) THEN "kDone"
  ELSE IF file.records = <<>> THEN "kParseRecords"
  ELSE "kParseFeatureSections"

\* C34 as it holds: every record is eventually handed to PushRecord and
\* every feature section dispatched, without error; Done is reached when the
\* file has feature sections, and the tokenizer of a file that ends at
\* data.end stays in ParseFeatureSections (ParseRecords without records),
\* since no state function runs on an empty buffer.
C34_ProgressToRest ==
  WellFormedFile =>
    <>[](/\ AllHanded
         /\ AllDispatched
         /\ parsing_state_ = RestingState
         /\ status = "OK"
         /\ ~aborted
         /\ empty(buffer_))

\* A well-formed file with a record and two feature sections was delivered
\* in more than one Parse call and is Done.
C34_Witness ==
  /\ WellFormedFile
  /\ delivered = file.len
  /\ file.records # <<>>
  /\ Len(features) = 2
  /\ AllHanded
  /\ parsing_state_ = "kDone"
  /\ log # <<>>
  /\ log[1].fn # "kParseHeader"

\* A well-formed file with records and no feature bit was delivered to the
\* end: its records are in the sorter and the state is ParseFeatureSections.
NoFeaturesRest ==
  /\ WellFormedFile
  /\ delivered = file.len
  /\ file.feature_index = <<>>
  /\ Len(Pushed) = 2
  /\ parsing_state_ = "kParseFeatureSections"

=============================================================================
